---------------------------- MODULE Spec2Model ----------------------------
(***************************************************************************)
(* A model of the geometry engine of UWCubeSat/found's Python tools:       *)
(*   tools/attitude   Attitude normalisation, DCM composition and the      *)
(*                    calibration/test attitude-pair generator             *)
(*   tools/generator  Vector, CoordinateSystem, Camera and the exact       *)
(*                    tangent-circle provider SphericalCurveProvider       *)
(*   tools/generator2 WGS84Spheroid's position validation and the pinhole  *)
(*                    Camera's constructor                                 *)
(*                                                                         *)
(* Numbers.  The code computes in IEEE doubles.  The model computes in     *)
(* exact integers and rationals: angles are whole degrees, lengths are     *)
(* whole model units, rotations are the 24 rotations of the cube (every    *)
(* Euler angle a multiple of 90 degrees), whose matrices are integer; the  *)
(* frames of tools/generator also take the angles of the 3-4-5 triangle,   *)
(* whose sines and cosines are rational.                                   *)
(* A double that the code would produce as NaN (0/0, arcsin of a value     *)
(* above 1, sqrt of a negative) is the value NaN below; numpy produces it  *)
(* with a RuntimeWarning and raises nothing.                               *)
(*                                                                         *)
(* Lengths.  One model unit of length is EARTH_RADIUS/300 metres, so that  *)
(* squares of lengths stay inside TLC's 32-bit integers.  Every formula of *)
(* the code that is modelled is homogeneous in length, so the comparisons  *)
(* against the radius are those of the code.                               *)
(***************************************************************************)
EXTENDS Integers, Sequences, FiniteSets, TLC

VARIABLES
    \* ---- tools/attitude: Attitude.__init__ (one construction in progress)
    a_in,          \* the constructor's arguments [ra, de, roll]
    a_self,        \* the object's fields [ra, de, roll], None before line 19
    a_pc,          \* the constructor's position
    \* ---- tools/attitude: produce_attitudes (one call in progress)
    p_args,        \* [local_attitude, calibration_attitude, num_attitude_pairs]
    calibration_attitudes,  \* (local_attitude_cal, reference_attitude_cal) or None
    test_attitudes,         \* the list of (loc_attitude, ref_attitude)
    p_i,           \* the passes of Step 3b's loop made so far (its i, plus one)
    p_pc,          \* the function's position
    p_exc,         \* the exception that left the function, or NoError
    \* ---- tools/generator: Camera.spatial_to_camera (one call)
    s_call,        \* [camera, points] of the call, or None before it
    s_ret,         \* what the call returned (or raised), with its Python type
    s_stdout,      \* the canvas points the call printed
    \* ---- tools/generator: SphericalCurveProvider(position) (one construction)
    c_position,    \* the constructor's argument, or None before it
    c_self,        \* the object's fields after the constructor returned, or None
    c_exc,         \* the exception that left the constructor, or NoError
    c_generated,   \* (center, points) that generate_points returned, or None
    \* ---- tools/generator2: WGS84Spheroid methods (one call)
    w_call,        \* [method, camera_position] of the call, or None before it
    w_ret,         \* what the call returned, or None
    w_exc,         \* the exception that left the call, or NoError
    w_generated,   \* the number of points the call generated
    \* ---- tools/generator: CoordinateSystem.to_coordinate_system (one call)
    t_call,        \* [system, points] of the call, or None before it
    t_ret,         \* what the call returned
    \* ---- tools/attitude: DCM.rotate (two calls on a pair of DCMs)
    r_in,          \* the rotations the DCMs C and X were constructed with
    r_dcm,         \* [C, X]: the rotation fields of the two DCMs now
    r_once,        \* [inverse, ret]: the first call C.rotate(X, inverse), or None
    r_twice,       \* what C.rotate(ret, not inverse) returned, or None
    \* ---- tools/generator: Camera.in_camera (one call)
    i_call,        \* [camera, point] of the call, or None before it
    i_ret,         \* what the call returned (or raised), with its Python type
    \* ---- Camera(...) of tools/generator and of tools/generator2 (one call)
    k_call,        \* [tool, focal_length, pixel_size, width, height], or None
    k_self,        \* the camera's fields once the constructor returned, or None
    k_exc,         \* the exception that left the constructor, or NoError
    \* ---- tools/generator: CoordinateSystem(position, attitude) (one call)
    b_call,        \* [position, attitude] as passed (None if omitted), or None
    b_self,        \* the fields [position, basis] of the frame, or None
    \* ---- tools/attitude: Attitude(...).to_dcm().to_attitude()
    e_in,          \* the arguments [ra, de, roll] of the first Attitude, or None
    e_att,         \* the fields of the Attitude constructed from them, or None
    e_dcm,         \* the rotation of the DCM that to_dcm returned, or None
    e_back,        \* the fields of the Attitude that to_attitude returned, or None
    n_call,        \* the vector normalize() was called on, or None
    n_self,        \* that vector after the call
    n_ret,         \* what normalize() returned or raised
    g_pc,          \* generate_points of __main__: the step it is at
    g_args,        \* its arguments, or None
    g_locals,      \* its local variables (None while unassigned)
    g_log,         \* the records it has logged, oldest first
    g_stdout,      \* the canvas points spatial_to_camera printed for it
    g_ret,         \* what it returned, or how it ended
    d_camera,      \* the position of the camera handed to EarthRenderer, or None
    d_self,        \* the renderer constructed, or None
    d_exc,         \* the exception that left the constructor, or NoError
    d_render,      \* what render_image returned or raised
    d_files        \* the image files written

attVars     == <<a_in, a_self, a_pc>>
produceVars == <<p_args, calibration_attitudes, test_attitudes, p_i, p_pc, p_exc>>
cameraVars  == <<s_call, s_ret, s_stdout>>
curveVars   == <<c_position, c_self, c_exc, c_generated>>
spheroidVars == <<w_call, w_ret, w_exc, w_generated>>
frameVars   == <<t_call, t_ret>>
rotateVars == <<r_in, r_dcm, r_once, r_twice>>
inCameraVars == <<i_call, i_ret>>
constructVars == <<k_call, k_self, k_exc>>
basisVars == <<b_call, b_self>>
eulerVars == <<e_in, e_att, e_dcm, e_back>>
normalizeVars == <<n_call, n_self, n_ret>>
mainVars == <<g_pc, g_args, g_locals, g_log, g_stdout, g_ret>>
renderVars == <<d_camera, d_self, d_exc, d_render, d_files>>
vars == <<attVars, produceVars, cameraVars, curveVars, spheroidVars, frameVars, rotateVars, inCameraVars, constructVars, basisVars, eulerVars, normalizeVars, mainVars, renderVars>>

\* What each operation leaves alone: the variables of the other operations.
notAttVars      == <<produceVars, cameraVars, curveVars, spheroidVars, frameVars, rotateVars, inCameraVars, constructVars, basisVars, eulerVars, normalizeVars, mainVars, renderVars>>
notProduceVars  == <<attVars, cameraVars, curveVars, spheroidVars, frameVars, rotateVars, inCameraVars, constructVars, basisVars, eulerVars, normalizeVars, mainVars, renderVars>>
notCameraVars   == <<attVars, produceVars, curveVars, spheroidVars, frameVars, rotateVars, inCameraVars, constructVars, basisVars, eulerVars, normalizeVars, mainVars, renderVars>>
notCurveVars    == <<attVars, produceVars, cameraVars, spheroidVars, frameVars, rotateVars, inCameraVars, constructVars, basisVars, eulerVars, normalizeVars, mainVars, renderVars>>
notSpheroidVars == <<attVars, produceVars, cameraVars, curveVars, frameVars, rotateVars, inCameraVars, constructVars, basisVars, eulerVars, normalizeVars, mainVars, renderVars>>
notFrameVars    == <<attVars, produceVars, cameraVars, curveVars, spheroidVars, rotateVars, inCameraVars, constructVars, basisVars, eulerVars, normalizeVars, mainVars, renderVars>>
notRotateVars == <<attVars, produceVars, cameraVars, curveVars, spheroidVars, frameVars, inCameraVars, constructVars, basisVars, eulerVars, normalizeVars, mainVars, renderVars>>
notInCameraVars == <<attVars, produceVars, cameraVars, curveVars, spheroidVars, frameVars, rotateVars, constructVars, basisVars, eulerVars, normalizeVars, mainVars, renderVars>>
notConstructVars == <<attVars, produceVars, cameraVars, curveVars, spheroidVars, frameVars, rotateVars, inCameraVars, basisVars, eulerVars, normalizeVars, mainVars, renderVars>>
notBasisVars == <<attVars, produceVars, cameraVars, curveVars, spheroidVars, frameVars, rotateVars, inCameraVars, constructVars, eulerVars, normalizeVars, mainVars, renderVars>>
notEulerVars == <<attVars, produceVars, cameraVars, curveVars, spheroidVars, frameVars, rotateVars, inCameraVars, constructVars, basisVars, normalizeVars, mainVars, renderVars>>
notNormalizeVars == <<attVars, produceVars, cameraVars, curveVars, spheroidVars, frameVars, rotateVars, inCameraVars, constructVars, basisVars, eulerVars, mainVars, renderVars>>
notMainVars == <<attVars, produceVars, cameraVars, curveVars, spheroidVars, frameVars, rotateVars, inCameraVars, constructVars, basisVars, eulerVars, normalizeVars, renderVars>>
notRenderVars == <<attVars, produceVars, cameraVars, curveVars, spheroidVars, frameVars, rotateVars, inCameraVars, constructVars, basisVars, eulerVars, normalizeVars, mainVars>>

\* Python's None, where an object is expected.
None == <<>>
\* No exception has been raised.
NoError == "none"

-----------------------------------------------------------------------------
(* Bounds of the model. *)

\* Angles given to Attitude range over -MaxTurns..MaxTurns full turns.
MaxTurns == 2
\* Angles are the multiples of a quarter turn in that range.
QuarterTurn == 90
\* produce_attitudes is called with num_attitude_pairs up to MaxPairs.
MaxPairs == 3
\* spatial_to_camera is called with up to MaxBatch points,
MaxBatch == 3
\* whose depths range over -1..MaxDepth.
MaxDepth == 3
\* The spheroid's methods are asked for up to MaxSamples points.
MaxSamples == 3
\* to_coordinate_system is called with up to MaxFramePoints points.
MaxFramePoints == 3

Abs(x) == IF x < 0 THEN -x ELSE x

-----------------------------------------------------------------------------
(* tools/attitude/src/common/constants.py *)

ANGLE_NORM == 360


-----------------------------------------------------------------------------
(* tools/attitude/src/transform/transform.py: Attitude.__init__            *)
(* The constructor stores its three arguments and then runs six while      *)
(* loops, two per angle.  a_pc names the loop whose test is next.          *)

\* The angles a caller may pass: whole quarter turns, up to MaxTurns turns
\* either way (the constructor accepts any float).
AngleInputs ==
    { k * QuarterTurn : k \in -((MaxTurns * ANGLE_NORM) \div QuarterTurn) ..
                              ((MaxTurns * ANGLE_NORM) \div QuarterTurn) }

\* The angles are floats.  The integers of the model stand for themselves,
\* except AbsorbingAngle and -AbsorbingAngle, which stand for the finite
\* doubles 1e19 and -1e19: there a double's neighbours are 2048 apart, so
\* that x - ANGLE_NORM and x + ANGLE_NORM round back to x.
AbsorbingAngle == 1000000

\* The float x - y and the float x + y (lines 24-36, -= and +=).
FloatSub(x, y) == IF Abs(x) >= AbsorbingAngle THEN x ELSE x - y
FloatAdd(x, y) == IF Abs(x) >= AbsorbingAngle THEN x ELSE x + y

\* The angles of the calls that include the two large doubles.
FloatAngleInputs == AngleInputs \cup {AbsorbingAngle, -AbsorbingAngle}

\* Lines 19-21: self.ra = ra; self.de = de; self.roll = roll
AttitudeStore ==
    /\ a_pc = "store"
    /\ a_self' = [ra |-> a_in.ra, de |-> a_in.de, roll |-> a_in.roll]
    /\ a_pc' = "ra_above"
    /\ UNCHANGED <<a_in, notAttVars>>

\* Lines 23-24: while self.ra > ANGLE_NORM: self.ra -= ANGLE_NORM
WhileRaAbove ==
    /\ a_pc = "ra_above"
    /\ IF a_self.ra > ANGLE_NORM
         THEN /\ a_self' = [a_self EXCEPT !.ra = FloatSub(@, ANGLE_NORM)]
              /\ UNCHANGED a_pc
         ELSE /\ a_pc' = "ra_below"
              /\ UNCHANGED a_self
    /\ UNCHANGED <<a_in, notAttVars>>

\* Lines 25-26: while self.ra < 0: self.ra += ANGLE_NORM
WhileRaBelow ==
    /\ a_pc = "ra_below"
    /\ IF a_self.ra < 0
         THEN /\ a_self' = [a_self EXCEPT !.ra = FloatAdd(@, ANGLE_NORM)]
              /\ UNCHANGED a_pc
         ELSE /\ a_pc' = "de_above"
              /\ UNCHANGED a_self
    /\ UNCHANGED <<a_in, notAttVars>>

\* A variant of WhileDeAbove: a declination above the range is clamped to the
\* range's upper end instead of being wrapped.
WhileDeAbove_Clamps ==
    /\ a_pc = "de_above"
    /\ IF 2 * a_self.de > ANGLE_NORM
         THEN /\ a_self' = [a_self EXCEPT !.de = ANGLE_NORM \div 2]
              /\ UNCHANGED a_pc
         ELSE /\ a_pc' = "de_below"
              /\ UNCHANGED a_self
    /\ UNCHANGED <<a_in, notAttVars>>

\* Lines 28-29: while self.de > ANGLE_NORM / 2: self.de -= ANGLE_NORM
WhileDeAbove ==
    /\ a_pc = "de_above"
    /\ IF 2 * a_self.de > ANGLE_NORM
         THEN /\ a_self' = [a_self EXCEPT !.de = FloatSub(@, ANGLE_NORM)]
              /\ UNCHANGED a_pc
         ELSE /\ a_pc' = "de_below"
              /\ UNCHANGED a_self
    /\ UNCHANGED <<a_in, notAttVars>>

\* Lines 30-31: while self.de < -ANGLE_NORM / 2: self.de += ANGLE_NORM
WhileDeBelow ==
    /\ a_pc = "de_below"
    /\ IF 2 * a_self.de < -ANGLE_NORM
         THEN /\ a_self' = [a_self EXCEPT !.de = FloatAdd(@, ANGLE_NORM)]
              /\ UNCHANGED a_pc
         ELSE /\ a_pc' = "roll_above"
              /\ UNCHANGED a_self
    /\ UNCHANGED <<a_in, notAttVars>>

\* A variant of WhileRollAbove: the loop tests against ANGLE_NORM, as the first
\* loop on ra does, instead of against 0.
WhileRollAbove_TestsAngleNorm ==
    /\ a_pc = "roll_above"
    /\ IF a_self.roll > ANGLE_NORM
         THEN /\ a_self' = [a_self EXCEPT !.roll = FloatSub(@, ANGLE_NORM)]
              /\ UNCHANGED a_pc
         ELSE /\ a_pc' = "roll_below"
              /\ UNCHANGED a_self
    /\ UNCHANGED <<a_in, notAttVars>>

\* Lines 33-34: while self.roll > 0: self.roll -= ANGLE_NORM
WhileRollAbove ==
    /\ a_pc = "roll_above"
    /\ IF a_self.roll > 0
         THEN /\ a_self' = [a_self EXCEPT !.roll = FloatSub(@, ANGLE_NORM)]
              /\ UNCHANGED a_pc
         ELSE /\ a_pc' = "roll_below"
              /\ UNCHANGED a_self
    /\ UNCHANGED <<a_in, notAttVars>>

\* Lines 35-36: while self.roll < 0: self.roll += ANGLE_NORM
WhileRollBelow ==
    /\ a_pc = "roll_below"
    /\ IF a_self.roll < 0
         THEN /\ a_self' = [a_self EXCEPT !.roll = FloatAdd(@, ANGLE_NORM)]
              /\ UNCHANGED a_pc
         ELSE /\ a_pc' = "done"
              /\ UNCHANGED a_self
    /\ UNCHANGED <<a_in, notAttVars>>

\* One step of the constructor.
NextAttitude ==
    \/ AttitudeStore
    \/ WhileRaAbove
    \/ WhileRaBelow
    \/ WhileDeAbove
    \/ WhileDeBelow
    \/ WhileRollAbove
    \/ WhileRollBelow

\* Attitude(ra, de, roll) has been called and has not yet run line 19.
InitAttitudeCall ==
    /\ a_in \in [ra : AngleInputs, de : AngleInputs, roll : AngleInputs]
    /\ a_self = None
    /\ a_pc = "store"

\* Attitude(ra, de, roll) has been called with angles that may be large
\* doubles.
InitAttitudeFloatCall ==
    /\ a_in \in [ra : FloatAngleInputs, de : FloatAngleInputs, roll : FloatAngleInputs]
    /\ a_self = None
    /\ a_pc = "store"

\* No Attitude is under construction.
AttitudeIdle ==
    /\ a_in = None
    /\ a_self = None
    /\ a_pc = "idle"

-----------------------------------------------------------------------------
(* Rotations.  scipy's Rotation is modelled by its 3x3 matrix, a tuple of  *)
(* three rows; the product of two Rotations is the matrix product and      *)
(* inv() of an orthonormal matrix is its transpose.                        *)

Identity3 == << <<1, 0, 0>>, <<0, 1, 0>>, <<0, 0, 1>> >>
\* A quarter turn about z, and one about x.
RotZ90 == << <<0, -1, 0>>, <<1, 0, 0>>, <<0, 0, 1>> >>
RotX90 == << <<1, 0, 0>>, <<0, 0, -1>>, <<0, 1, 0>> >>

\* self.rotation * other.rotation
MatMul(A, B) ==
    [i \in 1..3 |-> [j \in 1..3 |->
        A[i][1] * B[1][j] + A[i][2] * B[2][j] + A[i][3] * B[3][j]]]

\* rotation.inv()
MatInv(A) == [i \in 1..3 |-> [j \in 1..3 |-> A[j][i]]]

Det3(A) ==
      A[1][1] * (A[2][2] * A[3][3] - A[2][3] * A[3][2])
    - A[1][2] * (A[2][1] * A[3][3] - A[2][3] * A[3][1])
    + A[1][3] * (A[2][1] * A[3][2] - A[2][2] * A[3][1])

\* The rotations of the model: the 24 rotations that map the coordinate axes
\* onto each other (signed permutation matrices of determinant 1).
Rotations ==
    LET Perms == { f \in [1..3 -> 1..3] : \A i, j \in 1..3 : i # j => f[i] # f[j] }
        Signed == { [i \in 1..3 |-> [j \in 1..3 |->
                        IF j = f[i] THEN sg[i] ELSE 0]] :
                    f \in Perms, sg \in [1..3 -> {-1, 1}] }
    IN  { M \in Signed : Det3(M) = 1 }

\* The values Rotation.random() draws in the model (the code draws from all
\* of SO(3)): three rotations no two of which other than the identity commute.
RandomSample == { Identity3, RotZ90, RotX90 }

\* A variant of rotate: the inverse flag is ignored.
rotate_IgnoresInverse(self, other, inverse) == MatMul(self, other)

\* A variant of rotate: the operands of the product are swapped.
rotate_SwapsOperands(self, other, inverse) ==
    IF ~inverse THEN MatMul(other, self) ELSE MatMul(other, MatInv(self))

\* transform.py lines 86-88, DCM.rotate(self, other, inverse): a DCM is
\* modelled by the matrix of its rotation.
\*   if not inverse: return DCM(self.rotation * other.rotation)
\*   return DCM(self.rotation.inv() * other.rotation)
rotate(self, other, inverse) ==
    IF ~inverse THEN MatMul(self, other)
    ELSE MatMul(MatInv(self), other)

\* C.rotate(X, inverse), for either value of the flag: lines 86-88 build a new
\* DCM from the product and assign no field of self or of other.
RotateOnce ==
    /\ r_once = None
    /\ r_in # None
    /\ \E inverse \in BOOLEAN :
         r_once' = [inverse |-> inverse,
                    ret |-> rotate(r_dcm.C, r_dcm.X, inverse)]
    /\ UNCHANGED <<r_in, r_dcm, r_twice, notRotateVars>>

\* C.rotate(Y, not inverse) on the DCM Y that the first call returned.
RotateBack ==
    /\ r_once # None
    /\ r_twice = None
    /\ r_twice' = rotate(r_dcm.C, r_once.ret, ~r_once.inverse)
    /\ UNCHANGED <<r_in, r_dcm, r_once, notRotateVars>>

NextRotate ==
    \/ RotateOnce
    \/ RotateBack

\* Lines 66-74, DCM.__init__: two DCMs C and X have been constructed, each
\* from a given rotation.
InitRotateCall ==
    /\ r_in \in [C : Rotations, X : Rotations]
    /\ r_dcm = r_in
    /\ r_once = None
    /\ r_twice = None

\* No DCM has been constructed.
RotateIdle ==
    /\ r_in = None
    /\ r_dcm = None
    /\ r_once = None
    /\ r_twice = None

-----------------------------------------------------------------------------
(* tools/attitude/src/__main__.py: produce_attitudes                       *)

\* Lines 74-75, validate_arguments: raise RuntimeError if
\* num_attitude_pairs < 1
validate_arguments(local_attitude, calibration_attitude, num_attitude_pairs) ==
    IF num_attitude_pairs < 1 THEN "RuntimeError" ELSE NoError

\* Line 93: Step 0, validate_arguments(...); its exception leaves the function
ProduceValidate ==
    /\ p_pc = "validate"
    /\ LET e == validate_arguments(p_args.local_attitude,
                                   p_args.calibration_attitude,
                                   p_args.num_attitude_pairs)
       IN  IF e # NoError
             THEN /\ p_exc' = e
                  /\ p_pc' = "raised"
             ELSE /\ p_pc' = "calibration"
                  /\ UNCHANGED p_exc
    /\ UNCHANGED <<p_args, calibration_attitudes, test_attitudes, p_i, notProduceVars>>

\* A variant of ProduceCalibration: the local calibration attitude is derived
\* with the inverse of the calibration rotation.
ProduceCalibration_RotatesInverse ==
    /\ p_pc = "calibration"
    /\ \E reference_attitude_cal \in RandomSample :
         LET local_attitude_cal ==
                 rotate(p_args.calibration_attitude, reference_attitude_cal, TRUE)
         IN  calibration_attitudes' = <<local_attitude_cal, reference_attitude_cal>>
    /\ p_pc' = "first"
    /\ UNCHANGED <<p_args, test_attitudes, p_i, p_exc, notProduceVars>>

\* Lines 96-98: Step 2.  DCM() with no rotation draws Rotation.random().
\*   reference_attitude_cal = DCM()
\*   local_attitude_cal = calibration_attitude.rotate(reference_attitude_cal)
\*   calibration_attitudes = local_attitude_cal, reference_attitude_cal
ProduceCalibration ==
    /\ p_pc = "calibration"
    /\ \E reference_attitude_cal \in RandomSample :
         LET local_attitude_cal ==
                 rotate(p_args.calibration_attitude, reference_attitude_cal, FALSE)
         IN  calibration_attitudes' = <<local_attitude_cal, reference_attitude_cal>>
    /\ p_pc' = "first"
    /\ UNCHANGED <<p_args, test_attitudes, p_i, p_exc, notProduceVars>>

\* A variant of ProduceFirst: the first test pair is produced as the later
\* ones are, from a drawn reference, whatever local attitude was supplied.
ProduceFirst_DrawsReference ==
    /\ p_pc = "first"
    /\ \E ref_attitude \in RandomSample :
         LET loc_attitude ==
                 rotate(p_args.calibration_attitude, ref_attitude, FALSE)
         IN  test_attitudes' = << <<loc_attitude, ref_attitude>> >>
    /\ p_i' = 0
    /\ p_pc' = "loop"
    /\ UNCHANGED <<p_exc, p_args, calibration_attitudes, notProduceVars>>

\* Lines 101-106: Step 3 and 3a.  rotate reads other.rotation (line 88), which
\* raises AttributeError when local_attitude is None.
\*   test_attitudes = list()
\*   loc_attitude = local_attitude
\*   ref_attitude = calibration_attitude.rotate(local_attitude, inverse=True)
\*   test_attitudes.append((loc_attitude, ref_attitude))
ProduceFirst ==
    /\ p_pc = "first"
    /\ IF p_args.local_attitude = None
         THEN /\ p_exc' = "AttributeError"
              /\ p_pc' = "raised"
              /\ test_attitudes' = <<>>
              /\ UNCHANGED p_i
         ELSE LET loc_attitude == p_args.local_attitude
                  ref_attitude == rotate(p_args.calibration_attitude,
                                         p_args.local_attitude, TRUE)
              IN  /\ test_attitudes' = << <<loc_attitude, ref_attitude>> >>
                  /\ p_i' = 0
                  /\ p_pc' = "loop"
                  /\ UNCHANGED p_exc
    /\ UNCHANGED <<p_args, calibration_attitudes, notProduceVars>>

\* Lines 109-113: Step 3b, one pass of for i in range(num_attitude_pairs - 1),
\* or the loop's end and the return of line 116.
\*   ref_attitude = DCM()
\*   loc_attitude = calibration_attitude.rotate(ref_attitude)
\*   test_attitudes.append((loc_attitude, ref_attitude))
ProduceLoop ==
    /\ p_pc = "loop"
    /\ IF p_i < p_args.num_attitude_pairs - 1
         THEN /\ \E ref_attitude \in RandomSample :
                   LET loc_attitude ==
                           rotate(p_args.calibration_attitude, ref_attitude, FALSE)
                   IN  test_attitudes' =
                           Append(test_attitudes, <<loc_attitude, ref_attitude>>)
              /\ p_i' = p_i + 1
              /\ UNCHANGED p_pc
         ELSE /\ p_pc' = "returned"
              /\ UNCHANGED <<test_attitudes, p_i>>
    /\ UNCHANGED <<p_args, calibration_attitudes, p_exc, notProduceVars>>

NextProduce ==
    \/ ProduceValidate
    \/ ProduceCalibration
    \/ ProduceFirst
    \/ ProduceLoop

\* The local attitudes a caller passes: a DCM, or None (the parameter is
\* Optional[DCM]).
LocalAttitudes == Rotations \cup {None}

\* produce_attitudes(local_attitude, calibration_attitude, num_attitude_pairs)
\* has been called and has not yet run line 93.
InitProduceCall ==
    /\ p_args \in [local_attitude : LocalAttitudes,
                   calibration_attitude : Rotations,
                   num_attitude_pairs : 0..MaxPairs]
    /\ calibration_attitudes = None
    /\ test_attitudes = None
    /\ p_i = 0
    /\ p_pc = "validate"
    /\ p_exc = NoError

\* No call of produce_attitudes is in progress.
ProduceIdle ==
    /\ p_args = None
    /\ calibration_attitudes = None
    /\ test_attitudes = None
    /\ p_i = 0
    /\ p_pc = "idle"
    /\ p_exc = NoError

-----------------------------------------------------------------------------
(* Floats.  A float of tools/generator is modelled by an exact rational    *)
(* <<n, d>> in lowest terms with d > 0, or by one of IEEE's special        *)
(* values: <<1, 0>> is +inf, <<-1, 0>> is -inf and <<0, 0>> is NaN, which  *)
(* is what numpy's float64 division by zero produces (it warns and does    *)
(* not raise).                                                             *)

RECURSIVE GCD(_, _)
GCD(a, b) == IF b = 0 THEN a ELSE GCD(b, a % b)

Sign(x) == IF x > 0 THEN 1 ELSE IF x < 0 THEN -1 ELSE 0

\* The float n/d.
Rat(n, d) ==
    IF d = 0 THEN <<Sign(n), 0>>
    ELSE LET g == GCD(Abs(n), Abs(d))
         IN  <<Sign(d) * (n \div g), Abs(d) \div g>>

\* The float of an integer.
R(k) == <<k, 1>>

NaN == <<0, 0>>
IsNaN(a) == a = NaN
IsFinite(a) == a[2] # 0

RatNeg(a) == <<-a[1], a[2]>>
RatAdd(a, b) ==
    IF a[2] = 0 /\ b[2] = 0
      THEN (IF a[1] = b[1] THEN a ELSE NaN)
    ELSE IF a[2] = 0 \/ b[2] = 0
      THEN Rat(a[1] * b[2] + b[1] * a[2], 0)
    ELSE LET g == GCD(a[2], b[2])
         IN  Rat(a[1] * (b[2] \div g) + b[1] * (a[2] \div g),
                 (a[2] \div g) * b[2])
RatSub(a, b) == RatAdd(a, RatNeg(b))
RatMul(a, b) == Rat(a[1] * b[1], a[2] * b[2])
RatDiv(a, b) ==
    IF b[2] = 0
      THEN (IF b[1] = 0 \/ a[2] = 0 THEN NaN ELSE R(0))
    ELSE IF a[2] = 0
      THEN <<a[1] * (IF b[1] < 0 THEN -1 ELSE 1), 0>>
    ELSE Rat(a[1] * b[2], a[2] * b[1])
\* a < b and a <= b; every comparison with NaN is false.
RatLt(a, b) ==
    /\ ~IsNaN(a) /\ ~IsNaN(b)
    /\ IF a[2] = 0 /\ b[2] = 0 THEN a[1] < b[1]
       ELSE IF a[2] = 0 THEN a[1] < 0
       ELSE IF b[2] = 0 THEN b[1] > 0
       ELSE a[1] * b[2] < b[1] * a[2]
RatLe(a, b) ==
    /\ ~IsNaN(a) /\ ~IsNaN(b)
    /\ (a = b \/ RatLt(a, b))

RatAbs(a) == <<Abs(a[1]), a[2]>>

\* The floor of the square root of a natural number, by Newton's iteration.
RECURSIVE NewtonSqrt(_, _)
NewtonSqrt(n, x) ==
    LET y == (x + n \div x) \div 2
    IN  IF y >= x THEN x ELSE NewtonSqrt(n, y)

\* The square root of a natural number that is a perfect square (the model
\* only takes such roots; of any other number it has no value).
ISqrt(n) ==
    IF n = 0 THEN 0 ELSE CHOOSE r \in {NewtonSqrt(n, n)} : r * r = n

\* np.sqrt of a float: NaN for a negative float (numpy warns, does not raise).
RatSqrt(a) ==
    IF IsNaN(a) \/ a[1] < 0 THEN NaN
    ELSE IF a[2] = 0 THEN a
    ELSE <<ISqrt(a[1]), ISqrt(a[2])>>

\* np.dot of two arrays of three floats.
Dot3(u, v) ==
    RatAdd(RatAdd(RatMul(u[1], v[1]), RatMul(u[2], v[2])), RatMul(u[3], v[3]))

\* np.linalg.norm of an array of three floats.
Norm3(u) == RatSqrt(Dot3(u, u))

\* np.cos and np.sin of an angle given in degrees: of a quarter turn, and of
\* the two acute angles arctan(4/3) and arctan(3/4) of the 3-4-5 triangle,
\* written 53 and 37 (they add up to 90), and of what quarter turns and sign
\* changes make of them; their sines and cosines are +-3/5 and +-4/5.
Cos(a) == CASE a % 360 = 0 -> R(1) [] a % 360 = 90 -> R(0)
            [] a % 360 = 180 -> R(-1) [] a % 360 = 270 -> R(0)
            [] a % 360 = 53 -> Rat(3, 5) [] a % 360 = 307 -> Rat(3, 5)
            [] a % 360 = 127 -> Rat(-3, 5) [] a % 360 = 233 -> Rat(-3, 5)
            [] a % 360 = 37 -> Rat(4, 5) [] a % 360 = 323 -> Rat(4, 5)
            [] a % 360 = 143 -> Rat(-4, 5) [] a % 360 = 217 -> Rat(-4, 5)
Sin(a) == CASE a % 360 = 0 -> R(0) [] a % 360 = 90 -> R(1)
            [] a % 360 = 180 -> R(0) [] a % 360 = 270 -> R(-1)
            [] a % 360 = 53 -> Rat(4, 5) [] a % 360 = 307 -> Rat(-4, 5)
            [] a % 360 = 127 -> Rat(4, 5) [] a % 360 = 233 -> Rat(-4, 5)
            [] a % 360 = 37 -> Rat(3, 5) [] a % 360 = 323 -> Rat(-3, 5)
            [] a % 360 = 143 -> Rat(3, 5) [] a % 360 = 217 -> Rat(-3, 5)

-----------------------------------------------------------------------------
(* tools/generator/src/spatial/coordinate.py: Vector                       *)

\* Lines 51-53, Vector(*values): self.dimension = len(values);
\* self.vector = np.array(values)
Vector(values) == [dimension |-> Len(values), vector |-> values]

\* Lines 90-96, __neg__
VectorNeg(v) == Vector([i \in 1..v.dimension |-> RatNeg(v.vector[i])])

\* Lines 98-107, __add__ (of two vectors of one dimension)
VectorAdd(v, w) ==
    Vector([i \in 1..v.dimension |-> RatAdd(v.vector[i], w.vector[i])])

-----------------------------------------------------------------------------
(* tools/generator/src/spatial/camera.py: Camera.spatial_to_camera         *)
(* A camera is the record of its four intrinsics; spatial_to_camera reads  *)
(* nothing else of it.  A point is a Vector; point[k] of the code is       *)
(* point.vector[k + 1] here.                                               *)

\* A variant of in_camera: the sensor's edges are outside the sensor.
in_camera_ExclusiveBounds(self, point) ==
    IF point.dimension # 2
      THEN [exc |-> "ValueError", value |-> FALSE]
      ELSE LET x_lim == RatDiv(self.x_resolution, R(2))
               y_lim == RatDiv(self.y_resolution, R(2))
           IN  [exc |-> NoError,
                value |-> /\ RatLt(RatNeg(x_lim), point.vector[1])
                          /\ RatLt(point.vector[1], x_lim)
                          /\ RatLt(RatNeg(y_lim), point.vector[2])
                          /\ RatLt(point.vector[2], y_lim)]

\* Lines 63-71, in_camera(self, point): the exception it raises, or its value.
in_camera(self, point) ==
    IF point.dimension # 2
      THEN [exc |-> "ValueError", value |-> FALSE]
      ELSE LET x_lim == RatDiv(self.x_resolution, R(2))
               y_lim == RatDiv(self.y_resolution, R(2))
           IN  [exc |-> NoError,
                value |-> /\ RatLe(RatNeg(x_lim), point.vector[1])
                          /\ RatLe(point.vector[1], x_lim)
                          /\ RatLe(RatNeg(y_lim), point.vector[2])
                          /\ RatLe(point.vector[2], y_lim)]

\* A variant of BehindSensor: a point at exactly the focal length is dropped too.
BehindSensor_DropsEqual(self, point) ==
    RatLe(point.vector[1], self.focal_length)

\* Line 94: if point[0] < self.focal_length: continue
BehindSensor(self, point) ==
    RatLt(point.vector[1], self.focal_length)

\* Lines 96-97:
\*   factor = self.focal_length / point[0] / self.pixel_length
\*   image_point = Vector(factor * point[1], factor * point[2])
ImagePoint(self, point) ==
    LET factor == RatDiv(RatDiv(self.focal_length, point.vector[1]),
                         self.pixel_length)
    IN  Vector(<<RatMul(factor, point.vector[2]),
                 RatMul(factor, point.vector[3])>>)

\* Lines 100-101:
\*   reference = Vector(self.x_resolution / 2, self.y_resolution / 2)
\*   canvas_pt = -image_point + reference
CanvasPoint(self, image_point) ==
    LET reference == Vector(<<RatDiv(self.x_resolution, R(2)),
                              RatDiv(self.y_resolution, R(2))>>)
    IN  VectorAdd(VectorNeg(image_point), reference)

\* Lines 92-102: the loop over the first k points.  It yields the list
\* result, the canvas points printed, and the exception raised (by in_camera).
RECURSIVE ProjectLoop(_, _, _)
ProjectLoop(self, points, k) ==
    IF k = 0 THEN [result |-> <<>>, printed |-> <<>>, exc |-> NoError]
    ELSE LET before == ProjectLoop(self, points, k - 1)
             point == points[k]
             image_point == ImagePoint(self, point)
             inside == in_camera(self, image_point)
         IN  IF before.exc # NoError \/ BehindSensor(self, point) THEN before
             ELSE IF inside.exc # NoError
               THEN [before EXCEPT !.result = Append(@, image_point),
                                   !.exc = inside.exc]
             ELSE [before EXCEPT
                     !.result = Append(@, image_point),
                     !.printed = IF inside.value
                                   THEN Append(@, CanvasPoint(self, image_point))
                                   ELSE @]

\* A Python value with its type: the call returns a list or a bare Vector.
PyList(items) == [type |-> "list", value |-> items]
PyVector(v) == [type |-> "Vector", value |-> v]
\* The call has not returned.
NotReturned == [type |-> "pending", value |-> <<>>]
\* The call raised the exception exc.
Raised(exc) == [type |-> "raised", value |-> <<>>, exc |-> exc]

\* A variant of ReturnConvention: the list of None is as long as result.
ReturnConvention_NonePerResult(result, npoints) ==
    IF result = <<>> THEN PyList([i \in 1..Len(result) |-> None])
    ELSE IF Len(result) = 1 THEN PyVector(result[1])
    ELSE PyList(result)

\* Lines 103-107:
\*   if not result: return [None] * len(points)
\*   elif len(result) == 1: return result[0]
\*   return result
ReturnConvention(result, npoints) ==
    IF result = <<>> THEN PyList([i \in 1..npoints |-> None])
    ELSE IF Len(result) = 1 THEN PyVector(result[1])
    ELSE PyList(result)

\* Lines 92-107, spatial_to_camera(self, *points): what it returns or raises,
\* and what it prints.
spatial_to_camera(self, points) ==
    LET loop == ProjectLoop(self, points, Len(points))
    IN  [ret |-> IF loop.exc # NoError THEN Raised(loop.exc)
                 ELSE ReturnConvention(loop.result, Len(points)),
         printed |-> loop.printed]

\* The cameras of the model: every intrinsic strictly positive.
Cameras ==
    [focal_length : {R(1), R(2)}, pixel_length : {R(1), R(2)},
     x_resolution : {R(5)}, y_resolution : {R(4)}]

\* The points of the model, in camera coordinates: depths from behind the
\* camera up to MaxDepth, and two lateral offsets.
CameraPoints ==
    { Vector(<<R(depth), lateral[1], lateral[2]>>) :
        depth \in -1..MaxDepth, lateral \in { <<R(1), R(-2)>>, <<R(6), R(3)>> } }

\* The batches of the model: up to MaxBatch points.
RECURSIVE SeqsUpTo(_, _)
SeqsUpTo(S, n) ==
    IF n = 0 THEN { <<>> }
    ELSE LET shorter == SeqsUpTo(S, n - 1)
         IN  shorter \cup { Append(q, x) : q \in { r \in shorter : Len(r) = n - 1 },
                                           x \in S }

\* A call camera.spatial_to_camera(*points), from call to return.
SpatialToCamera ==
    /\ s_call = None
    /\ \E camera \in Cameras, points \in SeqsUpTo(CameraPoints, MaxBatch) :
         LET out == spatial_to_camera(camera, points)
         IN  /\ s_call' = [camera |-> camera, points |-> points]
             /\ s_ret' = out.ret
             /\ s_stdout' = out.printed
    /\ UNCHANGED notCameraVars

NextCamera ==
    \/ SpatialToCamera

\* No call of spatial_to_camera has been made.
CameraIdle ==
    /\ s_call = None
    /\ s_ret = NotReturned
    /\ s_stdout = <<>>

-----------------------------------------------------------------------------
(* tools/generator/src/curve/spherical.py: SphericalCurveProvider          *)

(* The constructor normalises vectors whose length is irrational (of      *)
(* (0, 1, 1), say), so its results are kept as directed vectors: the       *)
(* record [dir, mag] is the vector mag * dir / |dir|, with dir a triple of *)
(* rationals and mag a float.  v.normalize() * len is [v, len].            *)

\* constants.py line 10, in model units of length (EARTH_RADIUS/300 metres):
\* 6378137 m.
EARTH_RADIUS == 300

\* eval.py: float_equals(num1, num2, tolerance=1e-3)
\*   return abs(num1 - num2) < tolerance
float_equals(num1, num2) == RatLt(RatAbs(RatSub(num1, num2)), Rat(1, 1000))

\* coordinate.py lines 73-80, Vector.norm: np.linalg.norm(self.vector)
VectorNorm(v) == RatSqrt(Dot3(v.vector, v.vector))

\* coordinate.py lines 82-88, Vector.normalize: self.vector / self.norm, as a
\* directed vector of length 1.  The zero vector gives 0/0 and a vector with
\* a NaN or infinite coordinate gives NaN: a vector of NaN.
normalize(v) ==
    LET norm2 == Dot3(v.vector, v.vector)
    IN  [dir |-> v.vector,
         mag |-> IF ~IsFinite(norm2) \/ norm2 = R(0) THEN NaN ELSE R(1)]

\* coordinate.py lines 120-129, Vector.__mul__, of a directed vector.
DirectedTimes(dv, factor) == [dv EXCEPT !.mag = RatMul(@, factor)]

\* np.cross of two triples of floats.
Cross3(u, v) ==
    << RatSub(RatMul(u[2], v[3]), RatMul(u[3], v[2])),
       RatSub(RatMul(u[3], v[1]), RatMul(u[1], v[3])),
       RatSub(RatMul(u[1], v[2]), RatMul(u[2], v[1])) >>

Zero3 == <<R(0), R(0), R(0)>>

\* a.cross(b).normalize() of two directed vectors (spherical.py line 35): the
\* unit vector along a x b; a vector of NaN when a x b is zero or NaN.
CrossNormalized(a, b) ==
    LET scale == RatMul(a.mag, b.mag)
        dir == Cross3(a.dir, b.dir)
    IN  IF IsNaN(scale) \/ scale = R(0) \/ dir = Zero3
          THEN [dir |-> dir, mag |-> NaN]
          ELSE [dir |-> IF scale[1] < 0
                          THEN <<RatNeg(dir[1]), RatNeg(dir[2]), RatNeg(dir[3])>>
                          ELSE dir,
                mag |-> R(1)]

\* np.arcsin(x), an angle of [-pi/2, pi/2] given by its sine and cosine; NaN
\* outside [-1, 1] (numpy warns, does not raise).
ArcSin(x) ==
    IF RatLe(R(-1), x) /\ RatLe(x, R(1))
      THEN [sin |-> x, cos |-> RatSqrt(RatSub(R(1), RatMul(x, x)))]
      ELSE [sin |-> NaN, cos |-> NaN]

\* RadiusSeed with the sign of the bent coordinate kept.
RadiusSeed_KeepsSign(position) ==
    LET p == position.vector
    IN  IF ~float_equals(R(0), p[1])
          THEN Vector(<<RatDiv(RatAdd(p[2], p[3]), p[1]), R(1), R(1)>>)
        ELSE IF ~float_equals(R(0), p[2])
          THEN Vector(<<R(1), RatDiv(RatAdd(p[1], p[3]), p[2]), R(1)>>)
        ELSE Vector(<<R(1), R(1), RatDiv(RatAdd(p[1], p[2]), p[3])>>)

\* Lines 28-33: the vector the constructor bends into one orthogonal to
\* position, by the first coordinate of position that is not 0.
RadiusSeed(position) ==
    LET p == position.vector
    IN  IF ~float_equals(R(0), p[1])
          THEN Vector(<<RatDiv(RatNeg(RatAdd(p[2], p[3])), p[1]), R(1), R(1)>>)
        ELSE IF ~float_equals(R(0), p[2])
          THEN Vector(<<R(1), RatDiv(RatNeg(RatAdd(p[1], p[3])), p[2]), R(1)>>)
        ELSE Vector(<<R(1), R(1), RatDiv(RatNeg(RatAdd(p[1], p[2])), p[3])>>)

\* Lines 17-35, SphericalCurveProvider.__init__(self, position): the fields
\* it sets.  No statement of it raises.
SphericalCurveProvider(position) ==
    LET distance == VectorNorm(position)
        alpha == ArcSin(RatDiv(R(EARTH_RADIUS), distance))
        tangent_len == RatSqrt(RatSub(RatMul(distance, distance),
                                      R(EARTH_RADIUS * EARTH_RADIUS)))
        center_len == RatSub(distance, RatMul(tangent_len, alpha.cos))
        center == DirectedTimes(normalize(position), center_len)
        radius_len == RatMul(tangent_len, alpha.sin)
        radius == DirectedTimes(normalize(RadiusSeed(position)), radius_len)
        radius2 == DirectedTimes(CrossNormalized(center, radius), radius_len)
    IN  [exc |-> NoError,
         self |-> [center |-> center, radius |-> radius, radius2 |-> radius2]]

\* The positions of the model, up to order and sign of the coordinates:
\* the Earth's centre, positions inside the Earth, on it and outside it, each
\* with a rational norm and a rational tangent length.
BasePositions ==
    { <<0, 0, 0>>, <<180, 0, 0>>, <<60, 80, 0>>,
      <<300, 0, 0>>, <<180, 240, 0>>, <<100, 200, 200>>,
      <<325, 0, 0>>, <<340, 0, 0>>, <<500, 0, 0>>, <<300, 400, 0>>,
      <<75, 100, 300>> }

\* The positions a provider is constructed with.
CurvePositions ==
    { Vector(<<R(sg[1] * b[f[1]]), R(sg[2] * b[f[2]]), R(sg[3] * b[f[3]])>>) :
        b \in BasePositions,
        f \in { g \in [1..3 -> 1..3] : \A i, j \in 1..3 : i # j => g[i] # g[j] },
        sg \in [1..3 -> {-1, 1}] }

\* SphericalCurveProvider(position), from call to return.
ConstructProvider ==
    /\ c_position = None
    /\ \E position \in CurvePositions :
         LET out == SphericalCurveProvider(position)
         IN  /\ c_position' = position
             /\ c_exc' = out.exc
             /\ c_self' = IF out.exc = NoError THEN out.self ELSE None
    /\ UNCHANGED <<c_generated, notCurveVars>>

\* np.linspace(0, 2 * np.pi, num_points), in degrees: num_points angles from
\* 0 to a full turn, both ends included.
linspace(num_points) ==
    [k \in 1..num_points |->
        IF num_points = 1 THEN 0 ELSE ((k - 1) * 360) \div (num_points - 1)]

\* The sum of directed vectors, kept as the tuple of its terms
\* (Vector.__add__, coordinate.py lines 98-107).
DirectedSum(terms) == terms

\* The cosine of the angle between two directions: 0 for orthogonal ones.
DirectionCosine(u, v) ==
    IF Dot3(u, v) = R(0) THEN R(0)
    ELSE RatDiv(Dot3(u, v), RatSqrt(RatMul(Dot3(u, u), Dot3(v, v))))

\* The square of Vector.norm of a sum of three directed vectors.
SumNormSquared(s) ==
    LET sq(i) == RatMul(s[i].mag, s[i].mag)
        cross(i, j) == RatMul(R(2), RatMul(RatMul(s[i].mag, s[j].mag),
                                           DirectionCosine(s[i].dir, s[j].dir)))
    IN  RatAdd(RatAdd(RatAdd(sq(1), sq(2)), sq(3)),
               RatAdd(RatAdd(cross(1, 2), cross(1, 3)), cross(2, 3)))

\* generate_points leaving out the last of its angles.
generate_points_SkipsLast(self, num_points) ==
    LET datapoints == linspace(num_points)
        kept == IF num_points = 0 THEN 0 ELSE num_points - 1
    IN  [num_points |-> num_points,
         center |-> self.center,
         angles |-> SubSeq(datapoints, 1, kept),
         points |-> [k \in 1..kept |->
                        DirectedSum(<< self.center,
                                       DirectedTimes(self.radius, Sin(datapoints[k])),
                                       DirectedTimes(self.radius2, Cos(datapoints[k])) >>)]]

\* Lines 37-42, generate_points(self, num_points): the pair it returns.
\*   datapoints = np.linspace(0, 2 * np.pi, num_points)
\*   return self.center, [
\*       self.center + self.radius * np.sin(t) + self.radius2 * np.cos(t)
\*       for t in datapoints]
generate_points(self, num_points) ==
    LET datapoints == linspace(num_points)
    IN  [num_points |-> num_points,
         center |-> self.center,
         angles |-> datapoints,
         points |-> [k \in 1..num_points |->
                        DirectedSum(<< self.center,
                                       DirectedTimes(self.radius, Sin(datapoints[k])),
                                       DirectedTimes(self.radius2, Cos(datapoints[k])) >>)]]

\* The numbers of points asked for: those whose angles are quarter turns.
SampleCounts == {0, 1, 2, 3, 5}

\* provider.generate_points(num_points), from call to return.
GeneratePoints ==
    /\ c_self # None
    /\ c_generated = None
    /\ \E num_points \in SampleCounts :
         c_generated' = generate_points(c_self, num_points)
    /\ UNCHANGED <<c_position, c_self, c_exc, notCurveVars>>

NextCurve ==
    \/ ConstructProvider
    \/ GeneratePoints

\* No SphericalCurveProvider has been constructed.
CurveIdle ==
    /\ c_position = None
    /\ c_self = None
    /\ c_exc = NoError
    /\ c_generated = None

-----------------------------------------------------------------------------
(* tools/generator2/src/models/earth_model.py: WGS84Spheroid               *)

(* numpy arrays of three floats are tuples of three floats here.  Only     *)
(* what decides whether a method raises, and how many points it generates, *)
(* is modelled; the coordinates of the generated points are not.           *)

\* Lines 25-26, in model units of length (EARTH_EQUATORIAL_RADIUS/300 metres):
\* 6378137.0 m and 6356752.3 m.
EARTH_EQUATORIAL_RADIUS == 300
EARTH_POLAR_RADIUS == 299

\* Lines 51-59, WGS84Spheroid.__init__:
\*   self.mean_radius = (2 * self.equatorial_radius + self.polar_radius) / 3
WGS84Spheroid ==
    [equatorial_radius |-> R(EARTH_EQUATORIAL_RADIUS),
     polar_radius |-> R(EARTH_POLAR_RADIUS),
     mean_radius |-> RatDiv(RatAdd(RatMul(R(2), R(EARTH_EQUATORIAL_RADIUS)),
                                   R(EARTH_POLAR_RADIUS)), R(3))]

\* What a method call yields: the exception raised or NoError, the value
\* returned, and the number of points it generated.
Yield(exc, ret, generated) == [exc |-> exc, ret |-> ret, generated |-> generated]
PyArray(npoints) == [type |-> "ndarray", value |-> npoints]
PyFloat(x) == [type |-> "float", value |-> x]
PyBool(b) == [type |-> "bool", value |-> b]

\* Lines 87-146, get_earth_disk_points(self, camera_position, num_points).
\* Each of the num_points random samples appends a point when its ray meets
\* the sphere in front of the camera (lines 139-144): appended counts them.
\* It returns (np.array(points), angular_radius), the latter by its sine.
get_earth_disk_points(self, camera_position, num_points, appended) ==
    LET cam_distance == Norm3(camera_position)
    IN  IF RatLe(cam_distance, self.mean_radius)
          THEN Yield("ValueError", NotReturned, 0)
          ELSE Yield(NoError,
                     [type |-> "tuple", value |-> appended,
                      sin_angular_radius |-> RatDiv(self.mean_radius, cam_distance)],
                     appended)

\* Lines 172-218, get_earth_horizon_circle(self, camera_position, num_points):
\* one point per angle of np.linspace(0, 2 * np.pi, num_points, endpoint=False).
get_earth_horizon_circle(self, camera_position, num_points) ==
    LET cam_distance == Norm3(camera_position)
    IN  IF RatLe(cam_distance, self.mean_radius)
          THEN Yield("ValueError", NotReturned, 0)
          ELSE Yield(NoError, PyArray(num_points), num_points)

\* A variant of get_angular_radius: a camera exactly on the sphere is accepted.
get_angular_radius_AcceptsSurface(self, camera_position) ==
    LET cam_distance == Norm3(camera_position)
    IN  IF RatLt(cam_distance, self.mean_radius)
          THEN Yield("ValueError", NotReturned, 0)
          ELSE Yield(NoError, PyFloat(RatDiv(self.mean_radius, cam_distance)), 0)

\* Lines 233-238, get_angular_radius(self, camera_position): the angle
\* np.arcsin(self.mean_radius / cam_distance) is given by its sine.
get_angular_radius(self, camera_position) ==
    LET cam_distance == Norm3(camera_position)
    IN  IF RatLe(cam_distance, self.mean_radius)
          THEN Yield("ValueError", NotReturned, 0)
          ELSE Yield(NoError, PyFloat(RatDiv(self.mean_radius, cam_distance)), 0)

\* Lines 250-251, is_position_valid(self, position)
is_position_valid(self, position) ==
    LET distance == Norm3(position)
    IN  Yield(NoError, PyBool(RatLt(self.mean_radius, distance)), 0)

\* The distances from the Earth's centre of the model's camera positions:
\* the centre itself, inside, just inside, on the mean sphere (899/3), just
\* outside (the equatorial radius), and further out.
SpheroidDistances ==
    { R(0), R(150), R(298), R(299), Rat(899, 3), R(300), R(301), R(500) }

\* The camera positions of the model: at those distances along each axis,
\* either way, and two positions off the axes (of norm 300 and 500).
SpheroidPositions ==
    UNION { { <<d, R(0), R(0)>>, <<RatNeg(d), R(0), R(0)>>,
              <<R(0), d, R(0)>>, <<R(0), RatNeg(d), R(0)>>,
              <<R(0), R(0), d>>, <<R(0), R(0), RatNeg(d)>> } : d \in SpheroidDistances }
    \cup { <<R(180), R(-240), R(0)>>, <<R(0), R(300), R(400)>> }

\* A call spheroid.get_earth_disk_points(camera_position, num_points)
GetEarthDiskPoints ==
    /\ w_call = None
    /\ \E camera_position \in SpheroidPositions, num_points \in 1..MaxSamples :
         \E appended \in 0..num_points :
           LET out == get_earth_disk_points(WGS84Spheroid, camera_position,
                                            num_points, appended)
           IN  /\ w_call' = [method |-> "get_earth_disk_points",
                             camera_position |-> camera_position,
                             num_points |-> num_points]
               /\ w_ret' = out.ret
               /\ w_exc' = out.exc
               /\ w_generated' = out.generated
    /\ UNCHANGED notSpheroidVars

\* A call spheroid.get_earth_horizon_circle(camera_position, num_points)
GetEarthHorizonCircle ==
    /\ w_call = None
    /\ \E camera_position \in SpheroidPositions, num_points \in 1..MaxSamples :
         LET out == get_earth_horizon_circle(WGS84Spheroid, camera_position,
                                             num_points)
         IN  /\ w_call' = [method |-> "get_earth_horizon_circle",
                           camera_position |-> camera_position,
                           num_points |-> num_points]
             /\ w_ret' = out.ret
             /\ w_exc' = out.exc
             /\ w_generated' = out.generated
    /\ UNCHANGED notSpheroidVars

\* A call spheroid.get_angular_radius(camera_position)
GetAngularRadius ==
    /\ w_call = None
    /\ \E camera_position \in SpheroidPositions :
         LET out == get_angular_radius(WGS84Spheroid, camera_position)
         IN  /\ w_call' = [method |-> "get_angular_radius",
                           camera_position |-> camera_position,
                           num_points |-> 0]
             /\ w_ret' = out.ret
             /\ w_exc' = out.exc
             /\ w_generated' = out.generated
    /\ UNCHANGED notSpheroidVars

\* A call spheroid.is_position_valid(position)
IsPositionValid ==
    /\ w_call = None
    /\ \E position \in SpheroidPositions :
         LET out == is_position_valid(WGS84Spheroid, position)
         IN  /\ w_call' = [method |-> "is_position_valid",
                           camera_position |-> position,
                           num_points |-> 0]
             /\ w_ret' = out.ret
             /\ w_exc' = out.exc
             /\ w_generated' = out.generated
    /\ UNCHANGED notSpheroidVars

NextSpheroid ==
    \/ GetEarthDiskPoints
    \/ GetEarthHorizonCircle
    \/ GetAngularRadius
    \/ IsPositionValid

\* No method of the spheroid has been called.
SpheroidIdle ==
    /\ w_call = None
    /\ w_ret = NotReturned
    /\ w_exc = NoError
    /\ w_generated = 0

-----------------------------------------------------------------------------
(* tools/generator/src/spatial/coordinate.py: to_coordinate_system         *)

(* Angles are whole degrees and only quarter turns occur, whose sines and  *)
(* cosines are exactly -1, 0 or 1.  A matrix is a tuple of rows of floats. *)

\* Lines 9-27, Attitude(right_ascension, declination, roll)
GeneratorAttitude(right_ascension, declination, roll) ==
    [right_ascension |-> right_ascension, declination |-> declination,
     roll |-> roll]

\* Vector.__mul__ (lines 120-129), __add__ and __sub__ (lines 98-118) on the
\* arrays of three floats.
Scale3(u, factor) == [i \in 1..3 |-> RatMul(factor, u[i])]
Add3(u, v) == [i \in 1..3 |-> RatAdd(u[i], v[i])]
Sub3(u, v) == [i \in 1..3 |-> RatSub(u[i], v[i])]

\* A variant of CoordinateSystem: x_hat lacks the factor cos(de) of its first
\* two coordinates.
CoordinateSystem_FlatXHat(position, attitude) ==
    IF attitude # None
      THEN LET ra == attitude.right_ascension
               de == attitude.declination
               roll == -attitude.roll
               x_hat == << Cos(ra), Sin(ra), Sin(de) >>
               y_hat_nominal == << RatNeg(Sin(ra)), Cos(ra), R(0) >>
               z_hat_nominal == Cross3(x_hat, y_hat_nominal)
               z_hat == Sub3(Scale3(z_hat_nominal, Cos(roll)),
                             Scale3(y_hat_nominal, Sin(roll)))
               y_hat == Add3(Scale3(y_hat_nominal, Cos(roll)),
                             Scale3(z_hat_nominal, Sin(roll)))
           IN  [position |-> position,
                basis |-> << Vector(x_hat), Vector(y_hat), Vector(z_hat) >>]
      ELSE [position |-> position,
            basis |-> << Vector(<<R(1), R(0), R(0)>>),
                         Vector(<<R(0), R(1), R(0)>>),
                         Vector(<<R(0), R(0), R(1)>>) >>]

\* Lines 196-223, CoordinateSystem.__init__(self, position, attitude): the
\* fields position and basis (the list x_hat, y_hat, z_hat).
CoordinateSystem(position, attitude) ==
    IF attitude # None
      THEN LET ra == attitude.right_ascension
               de == attitude.declination
               roll == -attitude.roll
               x_hat == << RatMul(Cos(de), Cos(ra)), RatMul(Cos(de), Sin(ra)), Sin(de) >>
               y_hat_nominal == << RatNeg(Sin(ra)), Cos(ra), R(0) >>
               z_hat_nominal == Cross3(x_hat, y_hat_nominal)
               z_hat == Sub3(Scale3(z_hat_nominal, Cos(roll)),
                             Scale3(y_hat_nominal, Sin(roll)))
               y_hat == Add3(Scale3(y_hat_nominal, Cos(roll)),
                             Scale3(z_hat_nominal, Sin(roll)))
           IN  [position |-> position,
                basis |-> << Vector(x_hat), Vector(y_hat), Vector(z_hat) >>]
      ELSE [position |-> position,
            basis |-> << Vector(<<R(1), R(0), R(0)>>),
                         Vector(<<R(0), R(1), R(0)>>),
                         Vector(<<R(0), R(0), R(1)>>) >>]

\* The transpose of a matrix of nrows rows and ncols columns (.T).
Transposed(A, nrows, ncols) ==
    [j \in 1..ncols |-> [i \in 1..nrows |-> A[i][j]]]

\* The determinant of a 3x3 matrix of floats.
RatDet3(A) ==
    RatAdd(RatSub(RatMul(A[1][1], RatSub(RatMul(A[2][2], A[3][3]),
                                         RatMul(A[2][3], A[3][2]))),
                  RatMul(A[1][2], RatSub(RatMul(A[2][1], A[3][3]),
                                         RatMul(A[2][3], A[3][1])))),
           RatMul(A[1][3], RatSub(RatMul(A[2][1], A[3][2]),
                                  RatMul(A[2][2], A[3][1]))))

\* A with its column j replaced by the column b.
WithColumn(A, j, b) ==
    [i \in 1..3 |-> [k \in 1..3 |-> IF k = j THEN b[i] ELSE A[i][k]]]

\* np.linalg.solve(A, B) for a 3x3 matrix A that is not singular and a matrix
\* B of 3 rows and ncols columns: the X with A X = B, column by column, by
\* Cramer's rule.
Solve(A, B, ncols) ==
    [i \in 1..3 |-> [c \in 1..ncols |->
        RatDiv(RatDet3(WithColumn(A, i, [r \in 1..3 |-> B[r][c]])), RatDet3(A))]]

\* Line 235, for an array of nrows rows and ncols columns:
\*   len(points.shape) == 2 and not points.shape[0] == 3 and points.shape[1] == 3
NeedsTranspose(nrows, ncols) == ~(nrows = 3) /\ ncols = 3

\* Lines 234-242, to_coordinate_system(self, points), for one point or more.
\*   points = np.array([pt.vector - self.position.vector for pt in points])
\*   if ...: points = points.T
\*   basis = np.column_stack([axis.vector for axis in self.basis])
\*   transformed = np.linalg.solve(basis, points).T
\*   result = [Vector(numpy=point) for point in transformed]
\*   if len(result) == 1: return result[0]
\*   return result
to_coordinate_system(self, points) ==
    LET n == Len(points)
        array == [i \in 1..n |-> Sub3(points[i].vector, self.position.vector)]
        transpose == NeedsTranspose(n, 3)
        \* the right-hand side handed to solve: 3 rows and cols columns
        rhs == IF transpose THEN Transposed(array, n, 3) ELSE array
        cols == IF transpose THEN n ELSE 3
        basis == Transposed([i \in 1..3 |-> self.basis[i].vector], 3, 3)
        transformed == Transposed(Solve(basis, rhs, cols), 3, cols)
        result == [i \in 1..cols |-> Vector(transformed[i])]
    IN  IF Len(result) = 1 THEN PyVector(result[1]) ELSE PyList(result)

\* The quarter-turn angles of the model's frames, in degrees.
FrameAngles == {0, 90, 180, 270}

\* The frames of the model: the default frame and the frames of every
\* quarter-turn attitude, at two origins.
FrameSystems ==
    { CoordinateSystem(position, attitude) :
        position \in { Vector(<<R(0), R(0), R(0)>>), Vector(<<R(1), R(-2), R(3)>>) },
        attitude \in {None} \cup
            { GeneratorAttitude(ra, de, roll) :
                ra \in FrameAngles, de \in FrameAngles, roll \in FrameAngles } }

\* The points of the model, in the reference frame.
FramePoints ==
    { Vector(<<R(1), R(0), R(0)>>), Vector(<<R(0), R(2), R(0)>>),
      Vector(<<R(1), R(2), R(3)>>), Vector(<<R(-1), R(0), R(2)>>) }

\* A call system.to_coordinate_system(points) with one to MaxFramePoints
\* points, from call to return.
ToCoordinateSystem ==
    /\ t_call = None
    /\ \E system \in FrameSystems,
          points \in SeqsUpTo(FramePoints, MaxFramePoints) \ { <<>> } :
         /\ t_call' = [system |-> system, points |-> points]
         /\ t_ret' = to_coordinate_system(system, points)
    /\ UNCHANGED notFrameVars

NextFrame ==
    \/ ToCoordinateSystem

\* No call of to_coordinate_system has been made.
FrameIdle ==
    /\ t_call = None
    /\ t_ret = NotReturned

-----------------------------------------------------------------------------
(* tools/generator/src/spatial/camera.py: Camera.in_camera, called directly *)

\* The cameras in_camera is called on: sensors of even and of odd width and
\* height.
SensorCameras ==
    [focal_length : {R(1)}, pixel_length : {R(1)},
     x_resolution : {R(5), R(4)}, y_resolution : {R(4), R(3)}]

\* Coordinates inside, on and outside the edges of those sensors.
SensorCoordinates ==
    { R(-3), Rat(-5, 2), R(-2), Rat(-3, 2), R(0), Rat(3, 2), R(2), Rat(5, 2), R(3) }

\* The points in_camera is called with: of dimension 1, 2 and 3.
SensorPoints ==
    { Vector(<<x>>) : x \in SensorCoordinates }
    \cup { Vector(<<x, y>>) : x \in SensorCoordinates, y \in SensorCoordinates }
    \cup { Vector(<<x, y, R(0)>>) : x \in {R(0), R(3)}, y \in {R(0), R(3)} }

\* A call camera.in_camera(point), from call to return or raise.
InCamera ==
    /\ i_call = None
    /\ \E camera \in SensorCameras, point \in SensorPoints :
         LET out == in_camera(camera, point)
         IN  /\ i_call' = [camera |-> camera, point |-> point]
             /\ i_ret' = IF out.exc # NoError THEN Raised(out.exc)
                         ELSE PyBool(out.value)
    /\ UNCHANGED notInCameraVars

NextInCamera ==
    \/ InCamera

\* No call of in_camera has been made.
InCameraIdle ==
    /\ i_call = None
    /\ i_ret = NotReturned

-----------------------------------------------------------------------------
(* The constructors of the two cameras:                                    *)
(*   tools/generator/src/spatial/camera.py: Camera.__init__                *)
(*   tools/generator2/src/camera/pinhole_camera.py: Camera.__init__        *)

\* camera.py lines 33-37, Camera.__init__(self, position, orientation,
\* focal_length, pixel_size, x_resolution, y_resolution): the frame of
\* CoordinateSystem.__init__ and the four intrinsics as given.  No statement
\* of it raises.
\*   super().__init__(position, orientation)
\*   self.focal_length = focal_length
\*   self.pixel_length = pixel_size
\*   self.x_resolution = x_resolution
\*   self.y_resolution = y_resolution
GeneratorCamera(position, orientation, focal_length, pixel_size, x_resolution, y_resolution) ==
    LET frame == CoordinateSystem(position, orientation)
    IN  [exc |-> NoError,
         self |-> [position |-> frame.position, basis |-> frame.basis,
                   focal_length |-> focal_length, pixel_length |-> pixel_size,
                   x_resolution |-> x_resolution, y_resolution |-> y_resolution]]

\* Python's int(x) of a finite float: truncation towards zero.
PyInt(x) == Sign(x[1]) * (Abs(x[1]) \div x[2])

\* The product of two 3x3 matrices of floats (numpy's @).
RatMatMul(A, B) ==
    [i \in 1..3 |-> [j \in 1..3 |->
        RatAdd(RatAdd(RatMul(A[i][1], B[1][j]), RatMul(A[i][2], B[2][j])),
               RatMul(A[i][3], B[3][j]))]]

\* pinhole_camera.py lines 146-169, _create_rotation_matrix(orientation), for
\* [yaw, pitch, roll] in degrees: R_yaw @ R_pitch @ R_roll.
create_rotation_matrix(orientation) ==
    LET yaw == orientation[1]
        pitch == orientation[2]
        roll == orientation[3]
        R_yaw == << <<Cos(yaw), RatNeg(Sin(yaw)), R(0)>>,
                    <<Sin(yaw), Cos(yaw), R(0)>>,
                    <<R(0), R(0), R(1)>> >>
        R_pitch == << <<Cos(pitch), R(0), Sin(pitch)>>,
                      <<R(0), R(1), R(0)>>,
                      <<RatNeg(Sin(pitch)), R(0), Cos(pitch)>> >>
        R_roll == << <<R(1), R(0), R(0)>>,
                     <<R(0), Cos(roll), RatNeg(Sin(roll))>>,
                     <<R(0), Sin(roll), Cos(roll)>> >>
    IN  RatMatMul(RatMatMul(R_yaw, R_pitch), R_roll)

\* pinhole_camera.py lines 114-122, _validate_parameters(self): the exception
\* it raises, or NoError.
validate_parameters(self) ==
    IF RatLe(self.focal_length, R(0)) THEN "ValueError"
    ELSE IF RatLe(self.pixel_size, R(0)) THEN "ValueError"
    ELSE IF self.image_width <= 0 \/ self.image_height <= 0 THEN "ValueError"
    ELSE NoError

\* pinhole_camera.py lines 96-112, Camera.__init__(self, position,
\* orientation, focal_length, pixel_size, image_width, image_height).
\*   self.focal_length = focal_length / 1000.0
\*   self.pixel_size = pixel_size / 1000.0
\*   self.image_width = int(image_width)
\*   self.image_height = int(image_height)
\*   self._validate_parameters()
\*   self.rotation_matrix = self._create_rotation_matrix(orientation)
PinholeCamera(position, orientation, focal_length, pixel_size, image_width, image_height) ==
    LET stored == [position |-> position, orientation |-> orientation,
                   focal_length |-> RatDiv(focal_length, R(1000)),
                   pixel_size |-> RatDiv(pixel_size, R(1000)),
                   image_width |-> PyInt(image_width),
                   image_height |-> PyInt(image_height)]
        e == validate_parameters(stored)
    IN  IF e # NoError
          THEN [exc |-> e, self |-> None]
          ELSE [exc |-> NoError,
                self |-> [position |-> stored.position,
                          orientation |-> stored.orientation,
                          focal_length |-> stored.focal_length,
                          pixel_size |-> stored.pixel_size,
                          image_width |-> stored.image_width,
                          image_height |-> stored.image_height,
                          rotation_matrix |-> create_rotation_matrix(orientation)]]

\* The intrinsics a camera is constructed with: negative, zero, a fraction
\* of a unit and whole positive values.
IntrinsicInputs == { R(-1), R(0), Rat(1, 2), R(2) }

\* The poses a camera is constructed with: at the origin or off it, with no
\* orientation (tools/generator only) or quarter-turn angles.
PosePositions == { <<R(0), R(0), R(0)>>, <<R(-400), R(0), R(0)>> }
PoseAngles == { <<0, 0, 0>>, <<90, 270, 180>> }

\* Camera(position, orientation, ...) of tools/generator, from call to return.
ConstructGeneratorCamera ==
    /\ k_call = None
    /\ \E position \in PosePositions, angles \in PoseAngles \cup {None},
          focal_length \in IntrinsicInputs, pixel_size \in IntrinsicInputs,
          x_resolution \in IntrinsicInputs, y_resolution \in IntrinsicInputs :
         LET orientation == IF angles = None THEN None
                            ELSE GeneratorAttitude(angles[1], angles[2], angles[3])
             out == GeneratorCamera(Vector(position), orientation, focal_length,
                                    pixel_size, x_resolution, y_resolution)
         IN  /\ k_call' = [tool |-> "generator", focal_length |-> focal_length,
                           pixel_size |-> pixel_size, width |-> x_resolution,
                           height |-> y_resolution]
             /\ k_self' = out.self
             /\ k_exc' = out.exc
    /\ UNCHANGED notConstructVars

\* Camera(position, orientation, ...) of tools/generator2, from call to return
\* or raise.
ConstructPinholeCamera ==
    /\ k_call = None
    /\ \E position \in PosePositions, angles \in PoseAngles,
          focal_length \in IntrinsicInputs, pixel_size \in IntrinsicInputs,
          image_width \in IntrinsicInputs, image_height \in IntrinsicInputs :
         LET out == PinholeCamera(position, angles, focal_length, pixel_size,
                                  image_width, image_height)
         IN  /\ k_call' = [tool |-> "generator2", focal_length |-> focal_length,
                           pixel_size |-> pixel_size, width |-> image_width,
                           height |-> image_height]
             /\ k_self' = out.self
             /\ k_exc' = out.exc
    /\ UNCHANGED notConstructVars

NextConstruct ==
    \/ ConstructGeneratorCamera
    \/ ConstructPinholeCamera

\* No camera has been constructed.
ConstructIdle ==
    /\ k_call = None
    /\ k_self = None
    /\ k_exc = NoError

-----------------------------------------------------------------------------
(* tools/generator/src/spatial/coordinate.py: CoordinateSystem.__init__,   *)
(* called directly                                                         *)

\* The angles a frame is constructed with: the quarter turns and the two
\* 3-4-5 angles.
BasisAngles == {0, 53, 90, 180, 270, 307}

\* The origins a frame is constructed with; None stands for an omitted
\* argument.
BasisPositions == { None, Vector(<<R(0), R(0), R(0)>>), Vector(<<R(1), R(-2), R(3)>>) }

\* Line 189: the default of the parameter position is Vector(0, 0, 0).
DefaultPosition(position) ==
    IF position = None THEN Vector(<<R(0), R(0), R(0)>>) ELSE position

\* CoordinateSystem(position, attitude), from call to return; either argument
\* may be omitted.
ConstructFrame ==
    /\ b_call = None
    /\ \E position \in BasisPositions,
          attitude \in {None} \cup
              { GeneratorAttitude(ra, de, roll) :
                  ra \in BasisAngles, de \in BasisAngles, roll \in BasisAngles } :
         /\ b_call' = [position |-> position, attitude |-> attitude]
         /\ b_self' = CoordinateSystem(DefaultPosition(position), attitude)
    /\ UNCHANGED notBasisVars

NextBasis ==
    \/ ConstructFrame

\* No CoordinateSystem has been constructed.
BasisIdle ==
    /\ b_call = None
    /\ b_self = None

-----------------------------------------------------------------------------
(* tools/attitude/src/transform/transform.py: Attitude.to_dcm and          *)
(* DCM.to_attitude.  A rotation is here its 3x3 matrix of floats, so that  *)
(* Euler angles that are not quarter turns can be composed.                *)

\* The loops of Attitude.__init__, each as the value it leaves.
\*   while x > limit: x -= ANGLE_NORM     (twice_limit is 2 * limit)
RECURSIVE WhileAbove(_, _)
WhileAbove(x, twice_limit) ==
    IF 2 * x > twice_limit THEN WhileAbove(x - ANGLE_NORM, twice_limit) ELSE x
\*   while x < limit: x += ANGLE_NORM
RECURSIVE WhileBelow(_, _)
WhileBelow(x, twice_limit) ==
    IF 2 * x < twice_limit THEN WhileBelow(x + ANGLE_NORM, twice_limit) ELSE x

\* Lines 19-36, Attitude.__init__(self, ra, de, roll) as one step: the fields
\* after the six loops.
Attitude(ra, de, roll) ==
    [ra |-> WhileBelow(WhileAbove(ra, 2 * ANGLE_NORM), 0),
     de |-> WhileBelow(WhileAbove(de, ANGLE_NORM), -ANGLE_NORM),
     roll |-> WhileBelow(WhileAbove(roll, 0), 0)]

\* Rotation.from_euler(ROTATION_ORDER, angles, degrees=True) with
\* ROTATION_ORDER = 'ZYX' (upper case: intrinsic rotations): the rotation
\* Rz(angles[0]) Ry(angles[1]) Rx(angles[2]).
from_euler(angles) ==
    LET Rz == << <<Cos(angles[1]), RatNeg(Sin(angles[1])), R(0)>>,
                 <<Sin(angles[1]), Cos(angles[1]), R(0)>>,
                 <<R(0), R(0), R(1)>> >>
        Ry == << <<Cos(angles[2]), R(0), Sin(angles[2])>>,
                 <<R(0), R(1), R(0)>>,
                 <<RatNeg(Sin(angles[2])), R(0), Cos(angles[2])>> >>
        Rx == << <<R(1), R(0), R(0)>>,
                 <<R(0), Cos(angles[3]), RatNeg(Sin(angles[3]))>>,
                 <<R(0), Sin(angles[3]), Cos(angles[3])>> >>
    IN  RatMatMul(RatMatMul(Rz, Ry), Rx)

\* A variant of to_dcm: the roll is not negated.
to_dcm_KeepsRollSign(self) == from_euler(<<self.ra, -self.de, self.roll>>)

\* Line 44, Attitude.to_dcm(self):
\*   DCM(Rotation.from_euler(ROTATION_ORDER, [self.ra, -self.de, -self.roll], degrees=True))
to_dcm(self) == from_euler(<<self.ra, -self.de, -self.roll>>)

\* The angles as_euler can return for the rotations of the model: first and
\* third angle in (-180, 180], second in [-90, 90].  (atan2 can also return
\* -180; Attitude.__init__ brings -180 and 180 to the same ra and roll.)
OuterEulerAngles ==
    {-143, -127, -90, -53, -37, 0, 37, 53, 90, 127, 143, 180}
MiddleEulerAngles == {-90, -53, -37, 0, 37, 53, 90}

\* rotation.as_euler(ROTATION_ORDER, degrees=True): the angles (a, b, c) with
\* Rz(a) Ry(b) Rx(c) = rotation and b in [-90, 90], read off the first column
\* and the last row of the matrix, which are
\*   (cos b cos a, cos b sin a, -sin b) and (-sin b, cos b sin c, cos b cos c).
\* At b = +-90 (gimbal lock) scipy warns and sets the third angle to zero.
as_euler(rotation) ==
    LET b == CHOOSE y \in MiddleEulerAngles : RatNeg(Sin(y)) = rotation[3][1]
    IN  IF b \in {-90, 90}
          THEN << CHOOSE z \in OuterEulerAngles : from_euler(<<z, b, 0>>) = rotation,
                  b, 0 >>
          ELSE << CHOOSE z \in OuterEulerAngles :
                      /\ RatMul(Cos(b), Cos(z)) = rotation[1][1]
                      /\ RatMul(Cos(b), Sin(z)) = rotation[2][1],
                  b,
                  CHOOSE x \in OuterEulerAngles :
                      /\ RatMul(Cos(b), Sin(x)) = rotation[3][2]
                      /\ RatMul(Cos(b), Cos(x)) = rotation[3][3] >>

\* Lines 96-97, DCM.to_attitude(self):
\*   ra, de, roll = self.rotation.as_euler(ROTATION_ORDER, degrees=True)
\*   return Attitude(ra, -de, -roll)
to_attitude(rotation) ==
    LET angles == as_euler(rotation)
    IN  Attitude(angles[1], -angles[2], -angles[3])

\* The angles the first Attitude is constructed with.  With a declination of
\* +-90 the roll is a quarter turn, so that ra +- roll stays an angle of the
\* model.
EulerRa == {-90, 0, 53, 90, 180, 307, 360, 413}
EulerDe == {-180, -90, -53, 0, 37, 90, 127, 180, 270}
EulerRoll == {-90, 0, 37, 90, 180, 270, 450}
EulerInputs ==
    { t \in EulerRa \X EulerDe \X EulerRoll :
        t[2] \in {-90, 90, 270} => t[1] % 90 = 0 \/ t[3] % 90 = 0 }

\* Attitude(ra, de, roll)
EulerConstruct ==
    /\ e_in = None
    /\ \E t \in EulerInputs :
         /\ e_in' = [ra |-> t[1], de |-> t[2], roll |-> t[3]]
         /\ e_att' = Attitude(t[1], t[2], t[3])
    /\ UNCHANGED <<e_dcm, e_back, notEulerVars>>

\* attitude.to_dcm()
EulerToDcm ==
    /\ e_att # None
    /\ e_dcm = None
    /\ e_dcm' = to_dcm(e_att)
    /\ UNCHANGED <<e_in, e_att, e_back, notEulerVars>>

\* dcm.to_attitude()
EulerToAttitude ==
    /\ e_dcm # None
    /\ e_back = None
    /\ e_back' = to_attitude(e_dcm)
    /\ UNCHANGED <<e_in, e_att, e_dcm, notEulerVars>>

NextEuler ==
    \/ EulerConstruct
    \/ EulerToDcm
    \/ EulerToAttitude

\* No Attitude has been constructed.
EulerIdle ==
    /\ e_in = None
    /\ e_att = None
    /\ e_dcm = None
    /\ e_back = None

-----------------------------------------------------------------------------
(* tools/generator/src/spatial/coordinate.py: Vector.norm and              *)
(* Vector.normalize, called on a vector of any dimension                   *)

RECURSIVE SumOfSquares(_)
SumOfSquares(values) ==
    IF values = <<>> THEN R(0)
    ELSE RatAdd(RatMul(Head(values), Head(values)), SumOfSquares(Tail(values)))

\* Lines 73-80, the property norm: np.linalg.norm(self.vector)
Vector_norm(self) == RatSqrt(SumOfSquares(self.vector))

\* Lines 82-88, normalize(self):
\*   return Vector(self, numpy=self.vector / self.norm)
\* The division is numpy's: 0/0 is NaN (a RuntimeWarning, not an exception).
\* The constructor takes the numpy array and raises only when it is not of
\* one dimension (lines 55-60), which a quotient of self.vector never is.
Vector_normalize(self) ==
    LET quotient == [i \in 1..Len(self.vector) |->
                        RatDiv(self.vector[i], Vector_norm(self))]
    IN  PyVector([dimension |-> Len(quotient), vector |-> quotient])

\* The vectors normalize() is called on, up to order and sign of the
\* coordinates: zero vectors and vectors of rational norm, of 2 and 3
\* dimensions.
NormalizeBases ==
    { <<0, 0>>, <<1, 0>>, <<3, 4>>, <<5, 12>>,
      <<0, 0, 0>>, <<2, 0, 0>>, <<3, 4, 0>>, <<1, 2, 2>>, <<2, 3, 6>> }

NormalizeVectors ==
    { Vector([i \in 1..Len(b) |-> R(sg[i] * b[f[i]])]) :
        b \in { c \in NormalizeBases : Len(c) = 2 },
        f \in { g \in [1..2 -> 1..2] : g[1] # g[2] },
        sg \in [1..2 -> {-1, 1}] }
    \cup
    { Vector([i \in 1..Len(b) |-> R(sg[i] * b[f[i]])]) :
        b \in { c \in NormalizeBases : Len(c) = 3 },
        f \in { g \in [1..3 -> 1..3] : \A i, j \in 1..3 : i # j => g[i] # g[j] },
        sg \in [1..3 -> {-1, 1}] }

\* v.normalize(), from call to return.
Normalize ==
    /\ n_call = None
    /\ \E v \in NormalizeVectors :
         /\ n_call' = v
         /\ n_self' = v
         /\ n_ret' = Vector_normalize(v)
    /\ UNCHANGED notNormalizeVars

NextNormalize ==
    \/ Normalize

\* No call of normalize has been made.
NormalizeIdle ==
    /\ n_call = None
    /\ n_self = None
    /\ n_ret = NotReturned

-----------------------------------------------------------------------------
(* tools/generator/src/__main__.py: generate_points, lines 112-209         *)

(* The positions are those for which every vector of the curve provider    *)
(* has rational coordinates, so that the horizon points, their camera      *)
(* coordinates and their projections are computed exactly.                 *)

\* exit(1): SystemExit leaves the function at the given line.
Exited(line) == [type |-> "exit", value |-> 1, line |-> line]
\* return (camera, image_points)
PyTuple(items) == [type |-> "tuple", value |-> items]

\* The coordinates of a directed vector: mag * dir / |dir|.
DirectedValue(dv) == Scale3(dv.dir, RatDiv(dv.mag, Norm3(dv.dir)))

\* The Vector that a sum of three directed vectors is.
SumValue(terms) ==
    Vector(Add3(Add3(DirectedValue(terms[1]), DirectedValue(terms[2])),
                DirectedValue(terms[3])))

\* Python's max of two floats.
RatMax(a, b) == IF RatLt(a, b) THEN b ELSE a

\* The local variables before any is assigned.
NoLocals ==
    [camera |-> None, provider |-> None, center |-> None, points |-> None,
     camera_points |-> None, camera_center |-> None,
     image_center |-> None, image_points |-> None]

\* Lines 164-170, the condition of the field-of-view warning:
\*   camera.pixel_length * max(camera.x_resolution, camera.y_resolution)
\*       / camera.focal_length
\*   < spherical_curve_provider.radius.norm
\*       / (position - spherical_curve_provider.center).norm
FieldOfViewTooSmall(camera, provider, position) ==
    RatLt(RatDiv(RatMul(camera.pixel_length,
                        RatMax(camera.x_resolution, camera.y_resolution)),
                 camera.focal_length),
          RatDiv(RatAbs(provider.radius.mag),
                 Norm3(Sub3(position.vector, DirectedValue(provider.center)))))

\* Iterating over what spatial_to_camera returned (the unpacking of line
\* 180): a list yields its items, a bare Vector yields its floats
\* (Vector.__iter__, coordinate.py lines 141-147).
Iterate(ret) ==
    IF ret.type = "list" THEN ret.value
    ELSE [i \in 1..ret.value.dimension |-> PyFloat(ret.value.vector[i])]

\* The item is a Vector (not None, not a float).
IsVector(item) == item # None /\ "dimension" \in DOMAIN item

\* Lines 190-192, the loop over the first k image points:
\*   for pt in image_points:
\*       if camera.in_camera(pt): count += 1
\* in_camera reads pt.dimension, which a float does not have.
RECURSIVE CountInCamera(_, _, _)
CountInCamera(camera, image_points, k) ==
    IF k = 0 THEN [count |-> 0, exc |-> NoError]
    ELSE LET before == CountInCamera(camera, image_points, k - 1)
             pt == image_points[k]
         IN  IF before.exc # NoError THEN before
             ELSE IF ~IsVector(pt) THEN [before EXCEPT !.exc = "AttributeError"]
             ELSE LET inside == in_camera(camera, pt)
                  IN  IF inside.exc # NoError THEN [before EXCEPT !.exc = inside.exc]
                      ELSE IF inside.value THEN [before EXCEPT !.count = @ + 1]
                      ELSE before

\* A variant of CheckImage: a horizon partly behind the camera ends the
\* function like an error.
CheckImage_ExitsWhenBehind(camera, image_center, image_points, camera_points) ==
    LET counted == CountInCamera(camera, image_points, Len(image_points))
    IN  IF image_center = None
          THEN [log |-> <<"error: no edge">>, ret |-> Exited(188)]
        ELSE IF counted.exc # NoError
          THEN [log |-> <<>>, ret |-> Raised(counted.exc)]
        ELSE IF counted.count = 0
          THEN [log |-> <<"error: no edge">>, ret |-> Exited(197)]
        ELSE IF Len(image_points) # Len(camera_points)
          THEN [log |-> <<"warning: behind">>, ret |-> Exited(199)]
        ELSE [log |-> <<"info: in camera">>,
              ret |-> PyTuple(<<camera, image_points>>)]

\* Lines 184-209, from the test of image_center to the end of the function:
\* what it logs and how it ends.
\*   if image_center == None: logging.error(...); exit(1)
\*   count = 0; for pt in image_points: ...
\*   if count == 0: logging.error(...); exit(1)
\*   if len(image_points) != len(camera_points): logging.warning(...)
\*   logging.info(...)
\*   return (camera, image_points)
CheckImage(camera, image_center, image_points, camera_points) ==
    LET counted == CountInCamera(camera, image_points, Len(image_points))
    IN  IF image_center = None
          THEN [log |-> <<"error: no edge">>, ret |-> Exited(188)]
        ELSE IF counted.exc # NoError
          THEN [log |-> <<>>, ret |-> Raised(counted.exc)]
        ELSE IF counted.count = 0
          THEN [log |-> <<"error: no edge">>, ret |-> Exited(197)]
        ELSE [log |-> (IF Len(image_points) # Len(camera_points)
                         THEN <<"warning: behind">> ELSE <<>>)
                      \o <<"info: in camera">>,
              ret |-> PyTuple(<<camera, image_points>>)]

\* The positions generate_points is called with: inside the Earth, on its
\* surface, and outside it at two distances, along (2, -1, 2) and the
\* directions that differ from it by signs and by the order of the last two
\* coordinates.
MainPositions ==
    { Vector(<<R(2 * s * k), R(-(t * k * a)), R(t * k * (3 - a))>>) :
        s \in {-1, 1}, t \in {-1, 1}, a \in {1, 2}, k \in {50, 100, 125, 260} }

\* The orientations: quarter turns.
MainOrientations ==
    { GeneratorAttitude(ra, de, roll) :
        ra \in {0, 90, 180, 270}, de \in {0, 90, 270}, roll \in {0, 90} }

\* The arguments of the calls; num_points is at least 2.
MainArguments ==
    [position : MainPositions, orientation : MainOrientations,
     leo_threshold : {R(400)}, focal_length : {R(1), R(5), R(30)},
     pixel_size : {R(1)}, x_resolution : {R(6)}, y_resolution : {R(6)},
     num_points : SampleCounts \ {0, 1}]

\* generate_points(position, orientation, ..., num_points) is called.
MainCall ==
    /\ g_pc = "idle"
    /\ \E args \in MainArguments : g_args' = args
    /\ g_pc' = "step1"
    /\ UNCHANGED <<g_locals, g_log, g_stdout, g_ret, notMainVars>>

\* Lines 142-146, step 1:
\*   if position.norm < EARTH_RADIUS: logging.error(...); exit(1)
\*   if position.norm < leo_threshold: logging.warning(...)
MainStep1 ==
    /\ g_pc = "step1"
    /\ LET norm == Norm3(g_args.position.vector)
       IN  IF RatLt(norm, R(EARTH_RADIUS))
             THEN /\ g_log' = Append(g_log, "error: not above earth")
                  /\ g_ret' = Exited(144)
                  /\ g_pc' = "done"
             ELSE /\ g_log' = IF RatLt(norm, g_args.leo_threshold)
                                THEN Append(g_log, "warning: below LEO")
                                ELSE g_log
                  /\ g_ret' = g_ret
                  /\ g_pc' = "step2"
    /\ UNCHANGED <<g_args, g_locals, g_stdout, notMainVars>>

\* Lines 149-160, steps 2 and 3: the camera, the curve provider and its
\* points.
MainStep2 ==
    /\ g_pc = "step2"
    /\ LET camera == GeneratorCamera(g_args.position, g_args.orientation,
                                     g_args.focal_length, g_args.pixel_size,
                                     g_args.x_resolution, g_args.y_resolution).self
           provider == SphericalCurveProvider(g_args.position).self
           generated == generate_points(provider, g_args.num_points)
       IN  g_locals' = [g_locals EXCEPT
                          !.camera = camera,
                          !.provider = provider,
                          !.center = Vector(DirectedValue(generated.center)),
                          !.points = [k \in 1..Len(generated.points) |->
                                         SumValue(generated.points[k])]]
    /\ g_pc' = "step3E"
    /\ UNCHANGED <<g_args, g_log, g_stdout, g_ret, notMainVars>>

\* Lines 162-173, step 3E: the field-of-view warning.
MainStep3E ==
    /\ g_pc = "step3E"
    /\ g_log' = IF FieldOfViewTooSmall(g_locals.camera, g_locals.provider,
                                       g_args.position)
                  THEN Append(g_log, "warning: field of view")
                  ELSE g_log
    /\ g_pc' = "step4"
    /\ UNCHANGED <<g_args, g_locals, g_stdout, g_ret, notMainVars>>

\* Lines 175-177, step 4:
\*   camera_points = camera.to_camera_space(points)
\*   camera_center = camera.to_camera_space({center})
MainStep4 ==
    /\ g_pc = "step4"
    /\ g_locals' = [g_locals EXCEPT
          !.camera_points = to_coordinate_system(g_locals.camera, g_locals.points).value,
          !.camera_center = to_coordinate_system(g_locals.camera, <<g_locals.center>>).value]
    /\ g_pc' = "step5"
    /\ UNCHANGED <<g_args, g_log, g_stdout, g_ret, notMainVars>>

\* Lines 179-182, step 5:
\*   image_center, *image_points = camera.spatial_to_camera(
\*       camera_center, *camera_points)
MainStep5 ==
    /\ g_pc = "step5"
    /\ LET projected == spatial_to_camera(g_locals.camera,
                            <<g_locals.camera_center>> \o g_locals.camera_points)
       IN  /\ g_stdout' = g_stdout \o projected.printed
           /\ IF projected.ret.type = "raised"
                THEN /\ g_ret' = projected.ret
                     /\ g_locals' = g_locals
                     /\ g_pc' = "done"
                ELSE /\ g_ret' = g_ret
                     /\ g_locals' = [g_locals EXCEPT
                            !.image_center = Head(Iterate(projected.ret)),
                            !.image_points = Tail(Iterate(projected.ret))]
                     /\ g_pc' = "check"
    /\ UNCHANGED <<g_args, g_log, notMainVars>>

\* Lines 184-209: the checks of the projected points, and the return.
MainCheck ==
    /\ g_pc = "check"
    /\ LET out == CheckImage(g_locals.camera, g_locals.image_center,
                             g_locals.image_points, g_locals.camera_points)
       IN  /\ g_log' = g_log \o out.log
           /\ g_ret' = out.ret
    /\ g_pc' = "done"
    /\ UNCHANGED <<g_args, g_locals, g_stdout, notMainVars>>

NextMain ==
    \/ MainCall
    \/ MainStep1
    \/ MainStep2
    \/ MainStep3E
    \/ MainStep4
    \/ MainStep5
    \/ MainCheck

\* generate_points has not been called.
MainIdle ==
    /\ g_pc = "idle"
    /\ g_args = None
    /\ g_locals = NoLocals
    /\ g_log = <<>>
    /\ g_stdout = <<>>
    /\ g_ret = NotReturned

-----------------------------------------------------------------------------
(* tools/generator2/src/rendering/earth_renderer.py: EarthRenderer         *)

(* The sampling of the Earth's disk is random and the projection depends   *)
(* on where the camera looks: the number of sampled points that meet the   *)
(* sphere and the number of them that fall in the image are any numbers    *)
(* up to the number of samples.                                            *)

\* An exception with its message, and no exception.
RaisedWith(exc, message) ==
    [type |-> "raised", value |-> <<>>, exc |-> exc, message |-> message]
NotRaised == [type |-> "none", value |-> <<>>, exc |-> NoError, message |-> ""]

\* Lines 76-93, EarthRenderer.__init__(self, camera, spheroid):
\*   self.camera = camera; self.spheroid = spheroid
\*   if not self.spheroid.is_position_valid(self.camera.position):
\*       raise ValueError(f"Camera position is inside Earth! ...")
EarthRenderer(camera_position, spheroid) ==
    IF ~is_position_valid(spheroid, camera_position).ret.value
      THEN [exc |-> RaisedWith("ValueError", "Camera position is inside Earth!"),
            self |-> None]
      ELSE [exc |-> NotRaised,
            self |-> [camera_position |-> camera_position, spheroid |-> spheroid]]

\* Lines 95-173, render_image(self, output_path, num_earth_points,
\* num_horizon_points): what it returns or raises and the files it writes.
\*   try: earth_points, angular_radius = self.spheroid.get_earth_disk_points(...)
\*   except ValueError as e: logging.error(str(e)); raise
\*   ...
\*   if len(earth_in_image) == 0:
\*       raise ValueError("Earth is not visible in the camera field of view")
\*   ... self._create_earth_image(output_path, ...)
\*   return stats
render_image(self, output_path, num_earth_points, appended, in_image) ==
    LET disk == get_earth_disk_points(self.spheroid, self.camera_position,
                                      num_earth_points, appended)
    IN  IF disk.exc # NoError
          THEN [ret |-> RaisedWith(disk.exc, "Camera is inside Earth!"),
                written |-> {}]
        ELSE IF in_image = 0
          THEN [ret |-> RaisedWith("ValueError",
                                   "Earth is not visible in the camera field of view"),
                written |-> {}]
        ELSE [ret |-> [type |-> "dict", value |-> in_image],
              written |-> {output_path}]

\* EarthRenderer(camera, spheroid), from call to return or raise.
ConstructRenderer ==
    /\ d_camera = None
    /\ \E camera_position \in SpheroidPositions :
         LET out == EarthRenderer(camera_position, WGS84Spheroid)
         IN  /\ d_camera' = camera_position
             /\ d_self' = out.self
             /\ d_exc' = out.exc
    /\ UNCHANGED <<d_render, d_files, notRenderVars>>

\* renderer.render_image(output_path, num_earth_points), from call to return
\* or raise.
RenderImage ==
    /\ d_self # None
    /\ d_render.type = "pending"
    /\ \E num_earth_points \in 1..MaxSamples :
         \E appended \in 0..num_earth_points :
           \E in_image \in 0..appended :
             LET out == render_image(d_self, "output.png", num_earth_points,
                                     appended, in_image)
             IN  /\ d_render' = out.ret
                 /\ d_files' = d_files \cup out.written
    /\ UNCHANGED <<d_camera, d_self, d_exc, notRenderVars>>

NextRender ==
    \/ ConstructRenderer
    \/ RenderImage

\* No renderer has been constructed.
RenderIdle ==
    /\ d_camera = None
    /\ d_self = None
    /\ d_exc = NotRaised
    /\ d_render = NotReturned
    /\ d_files = {}

-----------------------------------------------------------------------------
(* Specifications: one per operation of the engine.  Every call is         *)
(* independent of every other (the engine keeps no state between calls),   *)
(* so each specification runs one operation and leaves the others idle.    *)

InitAttitude ==
    /\ InitAttitudeCall
    /\ ProduceIdle /\ CameraIdle /\ CurveIdle /\ SpheroidIdle /\ FrameIdle /\ RotateIdle /\ InCameraIdle /\ ConstructIdle /\ BasisIdle /\ EulerIdle /\ NormalizeIdle /\ MainIdle /\ RenderIdle
SpecAttitude == InitAttitude /\ [][NextAttitude]_vars

\* The constructor runs on: a step that is enabled is eventually taken.
InitAttitudeFair ==
    /\ InitAttitudeFloatCall
    /\ ProduceIdle /\ CameraIdle /\ CurveIdle /\ SpheroidIdle /\ FrameIdle /\ RotateIdle /\ InCameraIdle /\ ConstructIdle /\ BasisIdle /\ EulerIdle /\ NormalizeIdle /\ MainIdle /\ RenderIdle
SpecAttitudeFair ==
    InitAttitudeFair /\ [][NextAttitude]_vars /\ WF_vars(NextAttitude)

InitProduce ==
    /\ InitProduceCall
    /\ AttitudeIdle /\ CameraIdle /\ CurveIdle /\ SpheroidIdle /\ FrameIdle /\ RotateIdle /\ InCameraIdle /\ ConstructIdle /\ BasisIdle /\ EulerIdle /\ NormalizeIdle /\ MainIdle /\ RenderIdle
SpecProduce == InitProduce /\ [][NextProduce]_vars

InitCamera ==
    /\ CameraIdle
    /\ AttitudeIdle /\ ProduceIdle /\ CurveIdle /\ SpheroidIdle /\ FrameIdle /\ RotateIdle /\ InCameraIdle /\ ConstructIdle /\ BasisIdle /\ EulerIdle /\ NormalizeIdle /\ MainIdle /\ RenderIdle
SpecCamera == InitCamera /\ [][NextCamera]_vars

InitCurve ==
    /\ CurveIdle
    /\ AttitudeIdle /\ ProduceIdle /\ CameraIdle /\ SpheroidIdle /\ FrameIdle /\ RotateIdle /\ InCameraIdle /\ ConstructIdle /\ BasisIdle /\ EulerIdle /\ NormalizeIdle /\ MainIdle /\ RenderIdle
SpecCurve == InitCurve /\ [][NextCurve]_vars

InitSpheroid ==
    /\ SpheroidIdle
    /\ AttitudeIdle /\ ProduceIdle /\ CameraIdle /\ CurveIdle /\ FrameIdle /\ RotateIdle /\ InCameraIdle /\ ConstructIdle /\ BasisIdle /\ EulerIdle /\ NormalizeIdle /\ MainIdle /\ RenderIdle
SpecSpheroid == InitSpheroid /\ [][NextSpheroid]_vars

InitRotate ==
    /\ InitRotateCall
    /\ AttitudeIdle /\ ProduceIdle /\ CameraIdle /\ CurveIdle /\ SpheroidIdle /\ FrameIdle /\ InCameraIdle /\ ConstructIdle /\ BasisIdle /\ EulerIdle /\ NormalizeIdle /\ MainIdle /\ RenderIdle
SpecRotate == InitRotate /\ [][NextRotate]_vars

InitInCamera ==
    /\ InCameraIdle
    /\ AttitudeIdle /\ ProduceIdle /\ CameraIdle /\ CurveIdle /\ SpheroidIdle /\ FrameIdle /\ RotateIdle /\ ConstructIdle /\ BasisIdle /\ EulerIdle /\ NormalizeIdle /\ MainIdle /\ RenderIdle
SpecInCamera == InitInCamera /\ [][NextInCamera]_vars

InitConstruct ==
    /\ ConstructIdle
    /\ AttitudeIdle /\ ProduceIdle /\ CameraIdle /\ CurveIdle /\ SpheroidIdle /\ FrameIdle /\ RotateIdle /\ InCameraIdle /\ BasisIdle /\ EulerIdle /\ NormalizeIdle /\ MainIdle /\ RenderIdle
SpecConstruct == InitConstruct /\ [][NextConstruct]_vars

InitBasis ==
    /\ BasisIdle
    /\ AttitudeIdle /\ ProduceIdle /\ CameraIdle /\ CurveIdle /\ SpheroidIdle /\ FrameIdle /\ RotateIdle /\ InCameraIdle /\ ConstructIdle /\ EulerIdle /\ NormalizeIdle /\ MainIdle /\ RenderIdle
SpecBasis == InitBasis /\ [][NextBasis]_vars

InitEuler ==
    /\ EulerIdle
    /\ AttitudeIdle /\ ProduceIdle /\ CameraIdle /\ CurveIdle /\ SpheroidIdle /\ FrameIdle /\ RotateIdle /\ InCameraIdle /\ ConstructIdle /\ BasisIdle /\ NormalizeIdle /\ MainIdle /\ RenderIdle
SpecEuler == InitEuler /\ [][NextEuler]_vars

InitNormalize ==
    /\ NormalizeIdle
    /\ AttitudeIdle /\ ProduceIdle /\ CameraIdle /\ CurveIdle /\ SpheroidIdle /\ FrameIdle /\ RotateIdle /\ InCameraIdle /\ ConstructIdle /\ BasisIdle /\ EulerIdle /\ MainIdle /\ RenderIdle
SpecNormalize == InitNormalize /\ [][NextNormalize]_vars

InitMain ==
    /\ MainIdle
    /\ AttitudeIdle /\ ProduceIdle /\ CameraIdle /\ CurveIdle /\ SpheroidIdle /\ FrameIdle /\ RotateIdle /\ InCameraIdle /\ ConstructIdle /\ BasisIdle /\ EulerIdle /\ NormalizeIdle /\ RenderIdle
SpecMain == InitMain /\ [][NextMain]_vars

InitRender ==
    /\ RenderIdle
    /\ AttitudeIdle /\ ProduceIdle /\ CameraIdle /\ CurveIdle /\ SpheroidIdle /\ FrameIdle /\ RotateIdle /\ InCameraIdle /\ ConstructIdle /\ BasisIdle /\ EulerIdle /\ NormalizeIdle /\ MainIdle
SpecRender == InitRender /\ [][NextRender]_vars

InitFrame ==
    /\ FrameIdle
    /\ AttitudeIdle /\ ProduceIdle /\ CameraIdle /\ CurveIdle /\ SpheroidIdle /\ RotateIdle /\ InCameraIdle /\ ConstructIdle /\ BasisIdle /\ EulerIdle /\ NormalizeIdle /\ MainIdle /\ RenderIdle
SpecFrame == InitFrame /\ [][NextFrame]_vars

-----------------------------------------------------------------------------
(* Claims about tools/attitude.                                            *)

\* C1: every pair (local, reference) that produce_attitudes returns, the
\* calibration pair and each test pair, satisfies local = C * reference,
\* where C is the calibration rotation and * composes rotations.
C1_PairsAreCalibrationRotated ==
    p_pc = "returned" =>
        /\ calibration_attitudes[1] =
               MatMul(p_args.calibration_attitude, calibration_attitudes[2])
        /\ Len(test_attitudes) = p_args.num_attitude_pairs
        /\ \A k \in 1..Len(test_attitudes) :
               test_attitudes[k][1] =
                   MatMul(p_args.calibration_attitude, test_attitudes[k][2])

\* C1's case: a call with a supplied local attitude and a calibration
\* rotation that do not commute has returned several pairs, the first of
\* which has a reference different from its local attitude.
C1_Witness ==
    /\ p_pc = "returned"
    /\ p_args.calibration_attitude = RotX90
    /\ p_args.local_attitude = RotZ90
    /\ Len(test_attitudes) >= 2
    /\ test_attitudes[1][1] = RotZ90
    /\ test_attitudes[1][2] # test_attitudes[1][1]
    /\ test_attitudes[2][2] = RotZ90

\* C8: after construction the stored ra satisfies 0 <= ra < 360.
C8_RaInHalfOpenRange ==
    a_pc = "done" => (0 <= a_self.ra /\ a_self.ra < 360)

\* C9: after construction the stored de satisfies -180 < de <= 180.
C9_DeInHalfOpenRange ==
    a_pc = "done" => (-180 < a_self.de /\ a_self.de <= 180)

-----------------------------------------------------------------------------
(* Claims about Camera.spatial_to_camera.                                  *)

\* The points of the call whose depth is at least the focal length, in order.
KeptInputs ==
    SelectSeq(s_call.points,
              LAMBDA pt : RatLe(s_call.camera.focal_length, pt.vector[1]))

\* The indices of the call's points whose depth is below the focal length.
DroppedIndices ==
    { i \in 1..Len(s_call.points) :
        RatLt(s_call.points[i].vector[1], s_call.camera.focal_length) }

\* The projected points the call returned: the returned Vector, or the
\* Vectors of the returned list.
ReturnedPoints ==
    IF s_ret.type = "Vector" THEN <<s_ret.value>>
    ELSE IF s_ret.type = "list" THEN SelectSeq(s_ret.value, LAMBDA x : x # None)
    ELSE <<>>

\* q is the projection of pt: q = focal_length/depth * (pt[1], pt[2]) /
\* pixel_length, stated without division.
IsProjectionOf(q, pt) ==
    LET scale == RatMul(pt.vector[1], s_call.camera.pixel_length)
    IN  /\ q.dimension = 2
        /\ RatMul(q.vector[1], scale) =
               RatMul(s_call.camera.focal_length, pt.vector[2])
        /\ RatMul(q.vector[2], scale) =
               RatMul(s_call.camera.focal_length, pt.vector[3])

\* C2: the projected points spatial_to_camera returns correspond one to one,
\* in input order, to the inputs with depth >= focal_length, each being
\* focal_length/depth * (p[1], p[2]) / pixel_length; every point with
\* depth < focal_length is dropped.
C2_KeptPointsProjectedInOrder ==
    s_call # None =>
        /\ s_ret.type \in {"list", "Vector"}
        /\ Len(ReturnedPoints) = Len(KeptInputs)
        /\ \A i \in 1..Len(KeptInputs) :
               IsProjectionOf(ReturnedPoints[i], KeptInputs[i])

\* C2's case: of three points the first lies at exactly the focal length and
\* is kept, the second lies behind it and is dropped, the third is kept.
C2_Witness ==
    /\ s_call # None
    /\ s_call.camera.focal_length = R(2)
    /\ s_call.camera.pixel_length = R(1)
    /\ s_call.points = << Vector(<<R(2), R(1), R(-2)>>),
                          Vector(<<R(1), R(6), R(3)>>),
                          Vector(<<R(3), R(6), R(3)>>) >>
    /\ s_ret = PyList(<< Vector(<<R(1), R(-2)>>), Vector(<<R(4), R(2)>>) >>)

\* C3: a batch of at least two points of which exactly one has
\* depth < focal_length returns a list one element shorter than the batch.
C3_OneDroppedGivesListOneShorter ==
    (s_call # None /\ Len(s_call.points) >= 2 /\ Cardinality(DroppedIndices) = 1) =>
        /\ s_ret.type = "list"
        /\ Len(s_ret.value) = Len(s_call.points) - 1

\* C4: when every point of a batch of n points has depth < focal_length the
\* call raises nothing and returns a list of exactly n None entries.
C4_AllBehindGivesNonePerPoint ==
    (s_call # None /\ DroppedIndices = 1..Len(s_call.points)) =>
        s_ret = PyList([i \in 1..Len(s_call.points) |-> None])

\* C4's case: a batch of three points, all behind the focal plane, has
\* returned three None entries.
C4_Witness ==
    /\ s_call # None
    /\ Len(s_call.points) = 3
    /\ DroppedIndices = {1, 2, 3}
    /\ s_ret = PyList(<<None, None, None>>)

-----------------------------------------------------------------------------
(* Claims about WGS84Spheroid.                                             *)

\* The camera of the call is at a distance <= mean_radius from the origin,
\* stated on squares: 9 |p|^2 <= (2 a + b)^2.
CameraWithinMeanRadius ==
    RatLe(RatMul(R(9), Dot3(w_call.camera_position, w_call.camera_position)),
          R((2 * EARTH_EQUATORIAL_RADIUS + EARTH_POLAR_RADIUS)
            * (2 * EARTH_EQUATORIAL_RADIUS + EARTH_POLAR_RADIUS)))

\* C6: get_earth_disk_points, get_earth_horizon_circle and get_angular_radius
\* raise ValueError, before generating any point, exactly when the camera
\* distance is <= mean_radius; is_position_valid returns False on exactly
\* those positions and True on all others.
C6_RaisesExactlyWithinMeanRadius ==
    w_call # None =>
        IF w_call.method = "is_position_valid"
          THEN /\ w_exc = NoError
               /\ w_ret.type = "bool"
               /\ w_ret.value = ~CameraWithinMeanRadius
          ELSE IF CameraWithinMeanRadius
            THEN w_exc = "ValueError" /\ w_generated = 0 /\ w_ret.type = "pending"
            ELSE w_exc = NoError /\ w_ret.type # "pending"

\* C6's case: get_angular_radius has raised for a camera exactly on the mean
\* sphere.
C6_Witness ==
    /\ w_call # None
    /\ w_call.method = "get_angular_radius"
    /\ w_call.camera_position = <<R(0), Rat(-899, 3), R(0)>>
    /\ w_exc = "ValueError"

-----------------------------------------------------------------------------
(* Claims about SphericalCurveProvider.                                    *)

\* C5: constructing the provider with a position whose norm is
\* <= EARTH_RADIUS raises an error, and no centre or radius vector is
\* produced for such a position.
C5_WithinEarthRaises ==
    (/\ c_position # None
     /\ RatLe(Dot3(c_position.vector, c_position.vector), R(EARTH_RADIUS * EARTH_RADIUS))) =>
        (c_exc # NoError /\ c_self = None)

-----------------------------------------------------------------------------
(* Claims about CoordinateSystem.to_coordinate_system.                     *)

\* The points the call returned: the returned Vector, or the returned list.
TransformedPoints ==
    IF t_ret.type = "Vector" THEN <<t_ret.value>>
    ELSE IF t_ret.type = "list" THEN t_ret.value
    ELSE <<>>

\* x solves B x = pt - o, where the columns of B are the basis vectors of the
\* call's frame and o is its origin: x[1] b1 + x[2] b2 + x[3] b3 = pt - o.
SolvesChangeOfBasis(x, pt) ==
    LET b == t_call.system.basis
    IN  /\ x.dimension = 3
        /\ Add3(Add3(Scale3(b[1].vector, x.vector[1]),
                     Scale3(b[2].vector, x.vector[2])),
                Scale3(b[3].vector, x.vector[3]))
             = Sub3(pt.vector, t_call.system.position.vector)

\* C7: for n >= 1 input points to_coordinate_system returns n transformed
\* points in input order, the i-th being the solution x of B x = p_i - o with
\* the basis vectors as the columns of B.
C7_EachPointSolvesChangeOfBasis ==
    t_call # None =>
        /\ Len(TransformedPoints) = Len(t_call.points)
        /\ \A i \in 1..Len(t_call.points) :
               SolvesChangeOfBasis(TransformedPoints[i], t_call.points[i])

\* C7 for batches of any size but three.
C7_ExceptThreePoints ==
    (t_call # None /\ Len(t_call.points) # 3) =>
        /\ Len(TransformedPoints) = Len(t_call.points)
        /\ \A i \in 1..Len(t_call.points) :
               SolvesChangeOfBasis(TransformedPoints[i], t_call.points[i])

-----------------------------------------------------------------------------
(* Further claims about Attitude.__init__.                                 *)

\* The value of (-180, 180], [0, 360] or [0, 360) that the loops on one angle
\* leave, written as a function of that angle's input alone.
WrappedRa(x) ==
    IF x > 360 THEN ((x - 1) % 360) + 1 ELSE IF x < 0 THEN x % 360 ELSE x
WrappedDe(x) ==
    IF x > 180 THEN ((x + 179) % 360) - 179
    ELSE IF x < -180 THEN ((x + 180) % 360) - 180 ELSE x
WrappedRoll(x) == x % 360

\* C11: normalisation wraps and never clamps: each stored angle differs from
\* its own input by an integer multiple of 360 (at every step of the
\* constructor), and the stored value of each angle is a function of that
\* angle's input alone.
C11_WrapsEachAngleIndependently ==
    /\ a_pc \in {"ra_above", "ra_below", "de_above", "de_below",
                 "roll_above", "roll_below", "done"} =>
           /\ (a_self.ra - a_in.ra) % 360 = 0
           /\ (a_self.de - a_in.de) % 360 = 0
           /\ (a_self.roll - a_in.roll) % 360 = 0
    /\ a_pc = "done" =>
           /\ a_self.ra = WrappedRa(a_in.ra)
           /\ a_self.de = WrappedDe(a_in.de)
           /\ a_self.roll = WrappedRoll(a_in.roll)

\* C11's case: three angles outside their ranges, each by a different number
\* of turns, have all been wrapped.
C11_Witness ==
    /\ a_pc = "done"
    /\ a_in = [ra |-> 450, de |-> 630, roll |-> -90]
    /\ a_self = [ra |-> 90, de |-> -90, roll |-> 270]

-----------------------------------------------------------------------------
(* Further claims about produce_attitudes.                                 *)

\* C12: in the calibration pair that produce_attitudes returns, reference_cal
\* is the identity rotation, and so local_cal is the calibration rotation C.
C12_ReferenceCalIsIdentity ==
    p_pc = "returned" =>
        /\ calibration_attitudes[2] = Identity3
        /\ calibration_attitudes[1] = p_args.calibration_attitude

\* C12 as amended: in the calibration pair that produce_attitudes returns,
\* reference_cal is a freshly drawn rotation and local_cal is C * reference_cal.
C12_ReferenceCalIsDrawn ==
    p_pc = "returned" =>
        /\ Len(calibration_attitudes) = 2
        /\ calibration_attitudes[2] \in RandomSample
        /\ calibration_attitudes[1] =
               MatMul(p_args.calibration_attitude, calibration_attitudes[2])

\* C12's case: a call has returned whose drawn reference_cal is not the
\* identity and whose local_cal is neither reference_cal nor C.
C12_Witness ==
    /\ p_pc = "returned"
    /\ p_args.calibration_attitude = RotX90
    /\ calibration_attitudes[2] = RotZ90
    /\ calibration_attitudes[1] = MatMul(RotX90, RotZ90)
    /\ calibration_attitudes[1] # RotX90

\* C13: the first test pair returned has the supplied local attitude as its
\* local and C^-1 * local as its reference; every later pair has a freshly
\* drawn reference and C * reference as its local, whatever the supplied
\* local attitude is.
C13_FirstPairFromLocalOthersDrawn ==
    p_pc = "returned" =>
        /\ test_attitudes[1][1] = p_args.local_attitude
        /\ test_attitudes[1][2] =
               MatMul(MatInv(p_args.calibration_attitude), p_args.local_attitude)
        /\ \A k \in 2..Len(test_attitudes) :
               /\ test_attitudes[k][2] \in RandomSample
               /\ test_attitudes[k][1] =
                      MatMul(p_args.calibration_attitude, test_attitudes[k][2])

\* C13's case: a call has returned whose supplied local attitude is not a
\* rotation that is ever drawn, whose first pair holds it, and whose second
\* pair holds a drawn reference.
C13_Witness ==
    /\ p_pc = "returned"
    /\ p_args.calibration_attitude = RotZ90
    /\ p_args.local_attitude = MatMul(RotX90, RotX90)
    /\ Len(test_attitudes) >= 2
    /\ test_attitudes[1][1] = MatMul(RotX90, RotX90)
    /\ test_attitudes[2][2] = RotX90

\* C14: for N >= 1 produce_attitudes returns (it does not raise) exactly one
\* calibration pair and exactly N test pairs; for N < 1 it raises
\* RuntimeError during validation, before any pair is produced.
C14_ReturnsNPairsOrRaisesInValidation ==
    p_pc \in {"validate", "calibration", "first", "loop", "returned", "raised"} =>
        /\ p_args.num_attitude_pairs >= 1 => p_pc # "raised"
        /\ p_pc = "returned" =>
               /\ Len(calibration_attitudes) = 2
               /\ Len(test_attitudes) = p_args.num_attitude_pairs
        /\ (p_args.num_attitude_pairs < 1 /\ p_pc # "validate") =>
               /\ p_pc = "raised"
               /\ p_exc = "RuntimeError"
               /\ calibration_attitudes = None
               /\ test_attitudes = None

\* C14 for the calls that supply a local attitude.
C14_WithSuppliedLocal ==
    (/\ p_pc \in {"validate", "calibration", "first", "loop", "returned", "raised"}
     /\ p_args.local_attitude # None) =>
        /\ p_args.num_attitude_pairs >= 1 => p_pc # "raised"
        /\ p_pc = "returned" =>
               /\ Len(calibration_attitudes) = 2
               /\ Len(test_attitudes) = p_args.num_attitude_pairs
        /\ (p_args.num_attitude_pairs < 1 /\ p_pc # "validate") =>
               /\ p_pc = "raised"
               /\ p_exc = "RuntimeError"
               /\ calibration_attitudes = None
               /\ test_attitudes = None

\* C15: with local_attitude = None produce_attitudes raises nothing and
\* returns N test pairs, each with local = C * reference.
C15_AbsentLocalIsAccepted ==
    (/\ p_pc \in {"validate", "calibration", "first", "loop", "returned", "raised"}
     /\ p_args.local_attitude = None
     /\ p_args.num_attitude_pairs >= 1) =>
        /\ p_pc # "raised"
        /\ p_exc = NoError
        /\ p_pc = "returned" =>
               /\ Len(test_attitudes) = p_args.num_attitude_pairs
               /\ \A k \in 1..Len(test_attitudes) :
                      test_attitudes[k][1] =
                          MatMul(p_args.calibration_attitude, test_attitudes[k][2])

-----------------------------------------------------------------------------
(* Claims about DCM.rotate.                                                *)

\* C16: C.rotate(X) is the composition C * X and C.rotate(X, inverse=True) is
\* C^-1 * X; rotating the result back with the opposite flag gives X again;
\* neither call changes C or X.
C16_RotateComposesAndInverts ==
    r_in # None =>
        /\ r_dcm = r_in
        /\ r_once # None =>
               r_once.ret = IF r_once.inverse
                              THEN MatMul(MatInv(r_in.C), r_in.X)
                              ELSE MatMul(r_in.C, r_in.X)
        /\ r_twice # None => r_twice = r_in.X

\* C16's case: two rotations that do not commute; C.rotate(X, inverse=True)
\* differs from both C.rotate(X) and X, and rotating it forward gave X back.
C16_Witness ==
    /\ r_in # None
    /\ r_in.C = RotX90
    /\ r_in.X = RotZ90
    /\ r_once # None
    /\ r_once.inverse
    /\ r_once.ret # MatMul(RotX90, RotZ90)
    /\ r_once.ret # RotZ90
    /\ r_twice = RotZ90

-----------------------------------------------------------------------------
(* Claims about Camera.in_camera.                                          *)

\* The point of the call lies within +-x_resolution/2 and +-y_resolution/2,
\* both ends included: -resolution <= 2 * coordinate <= resolution.
WithinSensor ==
    LET p == i_call.point.vector
        cam == i_call.camera
    IN  /\ RatLe(RatNeg(cam.x_resolution), RatMul(R(2), p[1]))
        /\ RatLe(RatMul(R(2), p[1]), cam.x_resolution)
        /\ RatLe(RatNeg(cam.y_resolution), RatMul(R(2), p[2]))
        /\ RatLe(RatMul(R(2), p[2]), cam.y_resolution)

\* C17: in_camera(point) raises ValueError exactly when the point's dimension
\* is not 2; for a 2D point it returns True iff the point lies within
\* +-x_resolution/2 and +-y_resolution/2, bounds included, and False
\* otherwise.
C17_InCameraIffWithinInclusiveBounds ==
    i_call # None =>
        IF i_call.point.dimension # 2
          THEN i_ret.type = "raised" /\ i_ret.exc = "ValueError"
          ELSE /\ i_ret.type = "bool"
               /\ i_ret.value = WithinSensor

\* C17's case: a 2D point on the corner of a sensor of odd width was found to
\* be in the camera.
C17_Witness ==
    /\ i_call # None
    /\ i_call.camera.x_resolution = R(5)
    /\ i_call.camera.y_resolution = R(4)
    /\ i_call.point = Vector(<<Rat(5, 2), R(-2)>>)
    /\ i_ret.type = "bool"
    /\ i_ret.value = TRUE

-----------------------------------------------------------------------------
(* Claims about the construction of cameras.                               *)

\* One of the four intrinsics the constructor was called with is <= 0.
NonPositiveIntrinsic ==
    \/ RatLe(k_call.focal_length, R(0))
    \/ RatLe(k_call.pixel_size, R(0))
    \/ RatLe(k_call.width, R(0))
    \/ RatLe(k_call.height, R(0))

\* C18: constructing a camera, of tools/generator or of tools/generator2,
\* with focal length, pixel size, x-resolution or y-resolution <= 0 raises,
\* and no camera exists afterwards.
C18_NonPositiveIntrinsicRaises ==
    (k_call # None /\ NonPositiveIntrinsic) =>
        (k_exc # NoError /\ k_self = None)

\* C18 for the camera of tools/generator2 alone.
C18_PinholeCameraOnly ==
    (k_call # None /\ k_call.tool = "generator2" /\ NonPositiveIntrinsic) =>
        (k_exc = "ValueError" /\ k_self = None)

-----------------------------------------------------------------------------
(* Claims about CoordinateSystem.__init__.                                 *)

\* The basis the claim C19 describes for an attitude: x_hat is the spherical
\* unit direction of (ra, -de), and the nominal pair (y, z) is rotated in its
\* plane by -roll.
NegatedBasis(attitude) ==
    LET ra == attitude.right_ascension
        de == -attitude.declination
        roll == -attitude.roll
        x == << RatMul(Cos(de), Cos(ra)), RatMul(Cos(de), Sin(ra)), Sin(de) >>
        y_nom == << RatNeg(Sin(ra)), Cos(ra), R(0) >>
        z_nom == Cross3(x, y_nom)
    IN  << Vector(x),
           Vector(Add3(Scale3(y_nom, Cos(roll)), Scale3(z_nom, Sin(roll)))),
           Vector(Sub3(Scale3(z_nom, Cos(roll)), Scale3(y_nom, Sin(roll)))) >>

\* C19: CoordinateSystem.__init__ negates both the declination and the roll
\* of the given Attitude before composing the basis vectors.
C19_DeclinationAndRollNegated ==
    (b_call # None /\ b_call.attitude # None) =>
        b_self.basis = NegatedBasis(b_call.attitude)

\* C19 for the roll alone: the basis is that of (ra, de) with the nominal pair
\* rotated by -roll.
C19_OnlyRollNegated ==
    (b_call # None /\ b_call.attitude # None) =>
        b_self.basis =
            NegatedBasis(GeneratorAttitude(b_call.attitude.right_ascension,
                                           -b_call.attitude.declination,
                                           b_call.attitude.roll))

\* C20: the three basis vectors of a CoordinateSystem are of unit length and
\* pairwise orthogonal, for every attitude; a CoordinateSystem built with no
\* attitude has the identity basis, and with no argument the origin (0,0,0).
C20_BasisIsOrthonormal ==
    b_call # None =>
        /\ \A i, j \in 1..3 :
               Dot3(b_self.basis[i].vector, b_self.basis[j].vector)
                   = IF i = j THEN R(1) ELSE R(0)
        /\ b_call.attitude = None =>
               b_self.basis = << Vector(<<R(1), R(0), R(0)>>),
                                 Vector(<<R(0), R(1), R(0)>>),
                                 Vector(<<R(0), R(0), R(1)>>) >>
        /\ b_call.position = None =>
               b_self.position = Vector(<<R(0), R(0), R(0)>>)

\* C20's case: a frame was built for a declination of 90 degrees, a roll of a
\* quarter turn and an oblique right ascension; its x axis is the pole.
C20_Witness ==
    /\ b_call # None
    /\ b_call.attitude = GeneratorAttitude(53, 90, 270)
    /\ b_self.basis[1] = Vector(<<R(0), R(0), R(1)>>)

-----------------------------------------------------------------------------
(* Claims about Attitude.to_dcm and DCM.to_attitude.                       *)

\* C21: for every attitude whose declination is not +-90 degrees,
\* Attitude(ra, de, roll).to_dcm().to_attitude() has the same (ra, de, roll)
\* as the original Attitude.
C21_RoundTripRecoversTriple ==
    (e_back # None /\ e_att.de \notin {-90, 90}) => e_back = e_att

\* C21 for the attitudes whose declination lies strictly within +-90 degrees
\* and whose right ascension is not a full turn.
C21_WithinQuarterDeclination ==
    (/\ e_back # None
     /\ -90 < e_att.de /\ e_att.de < 90
     /\ e_att.ra # 360) => e_back = e_att

-----------------------------------------------------------------------------
(* C22: the horizon circle of a position outside the Earth lies on the     *)
(* Earth's sphere.                                                         *)

\* The position the provider was constructed with is outside the Earth.
OutsideEarth ==
    /\ c_position # None
    /\ RatLt(R(EARTH_RADIUS * EARTH_RADIUS),
             Dot3(c_position.vector, c_position.vector))

\* C22: for every position p with |p| > EARTH_RADIUS the two radius vectors
\* of the provider are orthogonal to p and to each other and have the same
\* length r, the centre lies along p at an offset c with
\* c^2 + r^2 = EARTH_RADIUS^2, and every edge point generate_points returns
\* is at distance EARTH_RADIUS from the origin.
C22_EdgePointsOnEarthSphere ==
    (OutsideEarth /\ c_self # None) =>
        /\ Dot3(c_self.radius.dir, c_position.vector) = R(0)
        /\ Dot3(c_self.radius2.dir, c_position.vector) = R(0)
        /\ Dot3(c_self.radius.dir, c_self.radius2.dir) = R(0)
        /\ c_self.center.dir = c_position.vector
        /\ IsFinite(c_self.radius.mag)
        /\ c_self.radius.mag = c_self.radius2.mag
        /\ RatAdd(RatMul(c_self.center.mag, c_self.center.mag),
                  RatMul(c_self.radius.mag, c_self.radius.mag))
             = R(EARTH_RADIUS * EARTH_RADIUS)
        /\ c_generated # None =>
             \A k \in 1..Len(c_generated.points) :
                SumNormSquared(c_generated.points[k])
                  = R(EARTH_RADIUS * EARTH_RADIUS)

\* C22 witness: five edge points were generated for a position outside the
\* Earth on the third axis (the third branch of the constructor).
C22_Witness ==
    /\ OutsideEarth
    /\ c_position.vector[1] = R(0)
    /\ c_position.vector[2] = R(0)
    /\ c_generated # None
    /\ Len(c_generated.points) = 5
    /\ \A k \in 1..5 :
          SumNormSquared(c_generated.points[k]) = R(EARTH_RADIUS * EARTH_RADIUS)

-----------------------------------------------------------------------------
(* C23: the angles generate_points samples.                                *)

\* generate_points has returned.
Generated == c_generated # None

\* C23 as stated: the sampled angles lie in the half-open turn [0, 360), so
\* that for n >= 2 the n edge points are pairwise distinct and the first is
\* not repeated as the last.
C23_AnglesInHalfOpenTurn ==
    (Generated /\ OutsideEarth) =>
        LET g == c_generated
            n == g.num_points
        IN  /\ Len(g.points) = n
            /\ \A k \in 1..n : 0 <= g.angles[k] /\ g.angles[k] < 360
            /\ \A j, k \in 1..n : j # k => g.points[j] # g.points[k]

\* C23 as the code has it: the n angles are spread evenly over the closed
\* turn [0, 360], both ends included; for n >= 2 the last angle is the full
\* turn, the last edge point repeats the first and the points before it are
\* pairwise distinct.
C23_AnglesInClosedTurn ==
    (Generated /\ OutsideEarth) =>
        LET g == c_generated
            n == g.num_points
        IN  /\ Len(g.points) = n
            /\ Len(g.angles) = n
            /\ n >= 1 => g.angles[1] = 0
            /\ n >= 2 =>
                 /\ g.angles[n] = 360
                 /\ \A k \in 1..(n - 1) :
                       g.angles[k + 1] - g.angles[k] = g.angles[2] - g.angles[1]
                 /\ g.points[n] = g.points[1]
                 /\ \A j, k \in 1..(n - 1) : j # k => g.points[j] # g.points[k]

\* C23 witness: five points were generated around a position outside the
\* Earth, the fifth at the full turn and equal to the first.
C23_Witness ==
    /\ Generated
    /\ OutsideEarth
    /\ c_generated.num_points = 5
    /\ c_generated.angles = <<0, 90, 180, 270, 360>>
    /\ c_generated.points[5] = c_generated.points[1]

-----------------------------------------------------------------------------
(* C24: Vector.normalize.                                                  *)

\* Every coordinate of the vector is 0.
IsZeroVector(v) == \A i \in 1..Len(v.vector) : v.vector[i] = R(0)

\* u is a positive multiple of v.
SameDirection(u, v) ==
    /\ Len(u.vector) = Len(v.vector)
    /\ \A i, j \in 1..Len(v.vector) :
          RatMul(u.vector[i], v.vector[j]) = RatMul(u.vector[j], v.vector[i])
    /\ \A i \in 1..Len(v.vector) :
          RatLe(R(0), RatMul(u.vector[i], v.vector[i]))

\* What C24 says of a non-zero vector: normalize() returns a vector of unit
\* length with the same direction and dimension and leaves the original
\* unchanged.
NormalizedToUnit ==
    /\ n_ret.type = "Vector"
    /\ n_ret.value.dimension = n_call.dimension
    /\ SumOfSquares(n_ret.value.vector) = R(1)
    /\ SameDirection(n_ret.value, n_call)
    /\ n_self = n_call

\* C24: normalize() of the zero vector raises an error and returns no
\* vector; of a non-zero vector it returns a vector of unit length with the
\* same direction and dimension, leaving the original vector unchanged.
C24_ZeroVectorRaises ==
    n_call # None =>
        IF IsZeroVector(n_call)
          THEN n_ret.type = "raised"
          ELSE NormalizedToUnit

\* The part of C24 about non-zero vectors.
C24_NonZeroNormalizedToUnit ==
    (n_call # None /\ ~IsZeroVector(n_call)) => NormalizedToUnit

\* normalize() of a zero vector returned a vector of NaN.
C24_ZeroVectorGivesNaN ==
    (n_call # None /\ IsZeroVector(n_call)) =>
        /\ n_ret.type = "Vector"
        /\ \A i \in 1..n_call.dimension : IsNaN(n_ret.value.vector[i])

-----------------------------------------------------------------------------
(* Claims about generate_points of tools/generator/src/__main__.py.        *)

\* generate_points has ended: by exit, by an exception or by a return.
MainDone == g_pc = "done"

\* The horizon points were brought into camera coordinates (step 4 is past).
MainProjected == MainDone /\ g_locals.camera_points # None

\* The horizon points spatial_to_camera keeps: depth >= focal_length.
HorizonKept ==
    { k \in 1..Len(g_locals.camera_points) :
        ~BehindSensor(g_locals.camera, g_locals.camera_points[k]) }

\* The projection of the horizon point k on the sensor plane.
HorizonProjection(k) == ImagePoint(g_locals.camera, g_locals.camera_points[k])

\* The horizon points that are kept and whose projection is in the sensor.
HorizonInSensor ==
    { k \in HorizonKept : in_camera(g_locals.camera, HorizonProjection(k)).value }

\* The returned list of image points.
ReturnedImagePoints == g_ret.value[2]

\* C26: generate_points ends either by exiting, which it does whenever no
\* projected horizon point lies inside the sensor, or by returning a list of
\* projected horizon points of which at least one lies inside the sensor; no
\* exception escapes it.
C26_ExitsOrReturnsVisibleHorizon ==
    MainDone =>
        /\ g_ret.type \in {"exit", "tuple"}
        /\ (MainProjected /\ HorizonInSensor = {}) => g_ret.type = "exit"
        /\ g_ret.type = "tuple" =>
             /\ \A j \in 1..Len(ReturnedImagePoints) :
                   \E k \in HorizonKept : ReturnedImagePoints[j] = HorizonProjection(k)
             /\ \E j \in 1..Len(ReturnedImagePoints) :
                   in_camera(g_locals.camera, ReturnedImagePoints[j]).value

\* The part of C26 that holds: a return hands back projected horizon points
\* of which at least one lies inside the sensor, and an exit hands back
\* nothing.
C26_ReturnHasVisibleHorizon ==
    MainDone =>
        /\ g_ret.type \in {"exit", "tuple", "raised"}
        /\ g_ret.type = "tuple" =>
             /\ \A j \in 1..Len(ReturnedImagePoints) :
                   \E k \in HorizonKept : ReturnedImagePoints[j] = HorizonProjection(k)
             /\ \E j \in 1..Len(ReturnedImagePoints) :
                   in_camera(g_locals.camera, ReturnedImagePoints[j]).value

\* The one exception that escapes: exactly one of the centre and the horizon
\* points is kept, spatial_to_camera returns it bare, and the loop of line
\* 190 calls in_camera on a float.
C26_SingleKeptPointRaises ==
    MainDone =>
        (g_ret.type = "raised" <=>
            (/\ MainProjected
             /\ Cardinality(HorizonKept)
                  + (IF BehindSensor(g_locals.camera, g_locals.camera_center)
                       THEN 0 ELSE 1) = 1))

-----------------------------------------------------------------------------
\* C29: when generate_points returns, image_center is the projection of the
\* centre of the horizon circle, and the returned image points contain the
\* projection of every horizon point whose depth is >= focal_length.
C29_CentreAndKeptHorizonReturned ==
    (MainDone /\ g_ret.type = "tuple") =>
        /\ g_locals.image_center = ImagePoint(g_locals.camera, g_locals.camera_center)
        /\ \A k \in HorizonKept :
              \E j \in 1..Len(ReturnedImagePoints) :
                  ReturnedImagePoints[j] = HorizonProjection(k)

\* C29 holds of the returns whose centre is in front of the sensor.
C29_WithCentreKept ==
    (/\ MainDone
     /\ g_ret.type = "tuple"
     /\ ~BehindSensor(g_locals.camera, g_locals.camera_center)) =>
        /\ g_locals.image_center = ImagePoint(g_locals.camera, g_locals.camera_center)
        /\ Len(ReturnedImagePoints) = Cardinality(HorizonKept)
        /\ \A k \in HorizonKept :
              \E j \in 1..Len(ReturnedImagePoints) :
                  ReturnedImagePoints[j] = HorizonProjection(k)

-----------------------------------------------------------------------------
(* C25: the advisory conditions of generate_points.                        *)

\* The position generate_points was called with is outside the Earth.
MainOutsideEarth ==
    /\ g_args # None
    /\ RatLt(R(EARTH_RADIUS), Norm3(g_args.position.vector))

\* The record was logged.
Logged(record) == \E i \in 1..Len(g_log) : g_log[i] = record

\* An advisory condition holds: the field of view may be too small (the
\* warning of line 171), or part of the horizon is behind the camera.
AdvisoryHolds ==
    \/ Logged("warning: field of view")
    \/ /\ MainProjected
       /\ \E k \in 1..Len(g_locals.camera_points) :
             BehindSensor(g_locals.camera, g_locals.camera_points[k])

\* The image points are Vectors and at least one of them is in the sensor.
EdgeCaptured ==
    /\ g_locals.image_points # None
    /\ g_locals.image_center # None
    /\ \A j \in 1..Len(g_locals.image_points) : IsVector(g_locals.image_points[j])
    /\ \E j \in 1..Len(g_locals.image_points) :
          in_camera(g_locals.camera, g_locals.image_points[j]).value

-----------------------------------------------------------------------------
(* C27: an EarthRenderer for a camera inside the Earth.                    *)

\* The camera handed to EarthRenderer is inside the Earth (not outside the
\* mean sphere).
CameraInsideEarth ==
    /\ d_camera # None
    /\ RatLe(Norm3(d_camera), WGS84Spheroid.mean_radius)

\* The messages that contain 'Camera is inside Earth'.
SaysCameraIsInsideEarth == { "Camera is inside Earth!" }

\* C27: an EarthRenderer is constructed for a camera inside the Earth; the
\* error comes only from render_image, which raises ValueError with a
\* message containing 'Camera is inside Earth' and writes no image.
C27_InsideEarthReportedByRenderImage ==
    CameraInsideEarth =>
        /\ d_exc = NotRaised
        /\ d_self # None
        /\ d_render.type # "pending" =>
             /\ d_render.type = "raised"
             /\ d_render.exc = "ValueError"
             /\ d_render.message \in SaysCameraIsInsideEarth
             /\ d_files = {}

\* What the code does instead: the constructor raises ValueError with the
\* message 'Camera position is inside Earth!', no renderer exists, and
\* render_image is never reached.
C27_InsideEarthRaisesAtConstruction ==
    CameraInsideEarth =>
        /\ d_exc # NotRaised
        /\ d_exc.exc = "ValueError"
        /\ d_exc.message \notin SaysCameraIsInsideEarth
        /\ d_self = None
        /\ d_render.type = "pending"
        /\ d_files = {}

-----------------------------------------------------------------------------
(* C28: the termination of Attitude.__init__.                              *)

\* The order of the constructor's loops.
LoopRank(pc) ==
    CASE pc = "store" -> 0 [] pc = "ra_above" -> 1 [] pc = "ra_below" -> 2
      [] pc = "de_above" -> 3 [] pc = "de_below" -> 4
      [] pc = "roll_above" -> 5 [] pc = "roll_below" -> 6 [] pc = "done" -> 7
      [] OTHER -> 0

\* In the loop the constructor is at, when its test holds, the body strictly
\* moves the angle toward the range.
LoopBodyMovesAngle ==
    /\ (a_pc = "ra_above" /\ a_self.ra > ANGLE_NORM) =>
           FloatSub(a_self.ra, ANGLE_NORM) < a_self.ra
    /\ (a_pc = "ra_below" /\ a_self.ra < 0) =>
           FloatAdd(a_self.ra, ANGLE_NORM) > a_self.ra
    /\ (a_pc = "de_above" /\ 2 * a_self.de > ANGLE_NORM) =>
           FloatSub(a_self.de, ANGLE_NORM) < a_self.de
    /\ (a_pc = "de_below" /\ 2 * a_self.de < -ANGLE_NORM) =>
           FloatAdd(a_self.de, ANGLE_NORM) > a_self.de
    /\ (a_pc = "roll_above" /\ a_self.roll > 0) =>
           FloatSub(a_self.roll, ANGLE_NORM) < a_self.roll
    /\ (a_pc = "roll_below" /\ a_self.roll < 0) =>
           FloatAdd(a_self.roll, ANGLE_NORM) > a_self.roll

\* C28: the construction of an Attitude terminates for every finite input:
\* in each of the six loops the body strictly moves the angle toward the
\* range, the constructor eventually returns, and once the second roll loop
\* is reached the first is never run again.
C28_ConstructionTerminates ==
    /\ []LoopBodyMovesAngle
    /\ [][LoopRank(a_pc') >= LoopRank(a_pc)]_vars
    /\ <>(a_pc = "done")

\* No angle of the call is one of the large doubles.
NoAbsorbingInput ==
    /\ Abs(a_in.ra) < AbsorbingAngle
    /\ Abs(a_in.de) < AbsorbingAngle
    /\ Abs(a_in.roll) < AbsorbingAngle

\* C28 holds of the calls whose angles are small enough for ANGLE_NORM to
\* change them.
C28_TerminatesWithoutAbsorption ==
    /\ [](NoAbsorbingInput => LoopBodyMovesAngle)
    /\ [][LoopRank(a_pc') >= LoopRank(a_pc)]_vars
    /\ (NoAbsorbingInput ~> a_pc = "done")

-----------------------------------------------------------------------------
(* C30: the generator's CoordinateSystem against the attitude tool's       *)
(* Attitude.to_dcm.                                                        *)

\* The image of the i-th coordinate axis under a rotation: the i-th column of
\* its matrix.
AxisImage(dcm, i) == [r \in 1..3 |-> dcm[r][i]]

\* The rotation the attitude tool produces for the angles of the generator's
\* attitude: Attitude(ra, de, roll).to_dcm().
ToolRotation(attitude) ==
    to_dcm(Attitude(attitude.right_ascension, attitude.declination, attitude.roll))

=============================================================================
